---- MODULE Spec2Model ----
(***************************************************************************)
(* Visit & billing transactions of the clinic application (src/app.py).    *)
(*                                                                         *)
(* The store is one SQLite file.  Every request opens its own connection   *)
(* (get_db), so a request reads the committed rows until its first         *)
(* INSERT/UPDATE/DELETE; that statement opens the transaction and takes    *)
(* the database write lock, which the connection holds until commit() or   *)
(* rollback().  A second writer waits for the lock and gets "database is   *)
(* locked" if the wait exceeds the connect() timeout.                      *)
(*                                                                         *)
(* In the rows money is modelled in whole currency units: on such values   *)
(* the floats the handlers use add, subtract and multiply exactly.  The    *)
(* arithmetic on amounts with decimals is modelled apart, on binary64      *)
(* floats (SpecBill).  Columns that no handler computes with (names of     *)
(* remedies, clinical free text, recorded_by, phone, age, gender) are left *)
(* out of the rows; the statements that write them are kept.  schema.sql   *)
(* is not part of the sources: a constraint it may declare shows as a      *)
(* statement the store refuses, and a start without the file as a store    *)
(* without its tables.                                                     *)
(*                                                                         *)
(* The chat service (src/ml_service.py) is not wired to the handlers; its  *)
(* model loader and get_response, with the three queries it puts to the    *)
(* database file at db_path, are modelled in SpecChat.                     *)
(***************************************************************************)
EXTENDS Integers, Sequences, FiniteSets, TLC

VARIABLES
    db,     \* the committed rows of the store
    lock,   \* the worker holding the database write lock, 0 when free
    pc,     \* per worker: position of the request it is serving
    tx,     \* per worker: the request being served and its connection's state
    resp,   \* per worker: the last HTTP response it returned
    conc,   \* per worker: its current (or last) request overlapped another request
    budget, \* requests the behaviour may still accept
    chat,   \* the chat service: its class attributes and the call in progress
    bill    \* a bill being computed in floating point, and its figures

vars == <<db, lock, pc, tx, resp, conc, budget, chat, bill>>

----------------------------------------------------------------------------
(* Bounds of the model *)

\* requests served in one behaviour, one at a time
MaxCalls == 1
\* requests served in one behaviour by concurrent workers
MaxConcCalls == 2
\* line items in one request
MaxItems == 2
\* the write statement at which the store may fail (0: the store does not fail)
MaxFault == 2

Workers == {1, 2}

Fees == {-1, 0, 5}
Paids == {0, 2, 5, 7}
MedBills == {6}
Roles == {"admin", "doctor", "staff"}
Prices == {2, 3}
Stocks == {-1, 0, 5}

----------------------------------------------------------------------------
(* Python dict payloads: a record whose domain is the set of keys present *)

Empty == [k \in {} |-> 0]

Has(d, k) == k \in DOMAIN d

\* dict.get(k, default)
Get(d, k, default) == IF k \in DOMAIN d THEN d[k] ELSE default

RECURSIVE SeqsUpTo(_, _)
SeqsUpTo(S, n) ==
    IF n = 0 THEN {<<>>}
    ELSE LET shorter == SeqsUpTo(S, n - 1)
         IN shorter \cup {Append(s, x) : s \in {t \in shorter : Len(t) = n - 1}, x \in S}

----------------------------------------------------------------------------
(* The store *)

\* current_unit_price and stock_quantity of a remedy row
RemedyRow(price, stock) == [current_unit_price |-> price, stock_quantity |-> stock]

\* the tables of the handlers that schema.sql creates
SchemaTables == {"patients", "remedies", "visits", "visit_medicines", "payments"}

\* the store init_database leaves on a new file.  It reads schema.sql from the
\* working directory: when the file is found its tables are created, empty;
\* when it is not, the failure is printed and only the expenses table, which
\* init_database creates itself, exists (the rows of a table that does not
\* exist are written <<>>).  The users it seeds are known to the handlers by
\* their role.  remedy_seq is the largest id the remedies table has held.
init_database(schema_found) ==
    [tables          |-> IF schema_found THEN SchemaTables \cup {"expenses"}
                         ELSE {"expenses"},
     patients        |-> <<>>,
     remedies        |-> <<>>,
     remedy_seq      |-> 0,
     visits          |-> <<>>,
     visit_medicines |-> <<>>,
     payments        |-> <<>>,
     expenses        |-> <<>>]

\* started where no schema.sql is
InitialDb == init_database(FALSE)

\* started beside its schema.sql
SchemaDb == init_database(TRUE)

\* a statement that names a table which does not exist raises
\* sqlite3.OperationalError "no such table" when it is prepared
has_table(d, table) == table \in d.tables

\* a moment after every date recorded in d (the dates that requests supply are
\* past dates, below 0; 0 is no date)
Now(d) ==
    LET dates == {d.visits[v].visit_date : v \in 1..Len(d.visits)} \cup {0}
    IN 1 + CHOOSE m \in dates : \A x \in dates : x <= m

\* A connection: the rows it sees (its own uncommitted writes included), the
\* write statements it has issued, and how the handler's try block has ended.
\* fault is the number of the write statement at which the store raises; now
\* is what datetime.now() gives the handler.
Conn(d, fault) ==
    [db |-> d, log |-> <<>>, outcome |-> "running", remedy |-> 0, visit_id |-> 0,
     med_cost |-> 0, fault |-> fault, now |-> Now(d)]

\* conn.execute of an INSERT, UPDATE or DELETE
Execute(c, stmt, newdb) ==
    IF c.outcome # "running" THEN c
    ELSE IF Len(c.log) + 1 = c.fault THEN [c EXCEPT !.outcome = "store_error"]
    ELSE [c EXCEPT !.db = newdb, !.log = Append(@, stmt)]

\* raise inside the try block
Raise(c, outcome) == IF c.outcome # "running" THEN c ELSE [c EXCEPT !.outcome = outcome]

\* the connection's rows once the handler has returned: commit() keeps its
\* writes, rollback() (and close() without commit) discards them
commit(c, committed) == c.db

\* a rollback that does not discard
rollback_keeps_writes(c, committed) == c.db

rollback(c, committed) == committed

Response(op, code, detail, remedy) ==
    [op |-> op, code |-> code, detail |-> detail, remedy |-> remedy]

NoResponse == Response("none", 0, "", 0)

NoTx == [op |-> "none"]

\* a request is handed to an idle worker thread; requests in flight now overlap it
Accept(w, request) ==
    /\ pc[w] = "idle"
    /\ budget > 0
    /\ budget' = budget - 1
    /\ tx' = [tx EXCEPT ![w] = request]
    /\ conc' = [v \in Workers |->
                  IF v = w THEN \E u \in Workers \ {w} : pc[u] # "idle"
                  ELSE conc[v] \/ pc[v] # "idle"]
    /\ UNCHANGED <<db, lock, resp>>

\* a store that lets a second writer in
write_lock_ignored(w) == TRUE

\* the first write of a connection gets the database write lock only when no
\* other connection holds it; until then the statement waits
write_lock_free(w) == lock = 0

\* the handler returns (or raises) and its connection is closed
Return(w, response) ==
    /\ pc' = [pc EXCEPT ![w] = "idle"]
    /\ tx' = [tx EXCEPT ![w] = NoTx]
    /\ resp' = [resp EXCEPT ![w] = response]

\* datetime.now(): later than every date a request in flight has written and
\* than every earlier reading a request in flight still holds
Clock ==
    LET seen == {Now(db)}
                    \cup {Now(tx[w].conn.db) : w \in {v \in Workers : Has(tx[v], "conn")}}
                    \cup {tx[w].now + 1 : w \in {v \in Workers : Has(tx[v], "now")}}
    IN CHOOSE m \in seen : \A x \in seen : x <= m

----------------------------------------------------------------------------
(* The patient details a visit payload may carry *)

\* the strings int() reads as a decimal number, with their values; of any
\* other string int() raises ValueError
Decimal == ("40" :> 40) @@ ("0" :> 0)

\* "Update patient details if provided" of create_visit and update_visit: one
\* UPDATE patients for each of name, phone, age and gender whose value is not
\* empty, in this order; the age goes through int() first.  The store keeps
\* the name only.
patient_details(c, visit, patient_id) ==
    LET given(key) == Get(visit, key, "") # ""
        named  == IF given("patient_name")
                  THEN Execute(c, "update_patient",
                               IF patient_id \in DOMAIN c.db.patients
                               THEN [c.db EXCEPT !.patients[patient_id].name =
                                                     visit.patient_name]
                               ELSE c.db)
                  ELSE c
        phoned == IF given("patient_phone") THEN Execute(named, "update_patient", named.db)
                  ELSE named
        aged   == IF ~given("patient_age") THEN phoned
                  ELSE IF visit.patient_age \in DOMAIN Decimal
                  THEN Execute(phoned, "update_patient", phoned.db)
                  ELSE Raise(phoned, "value_error")
    IN IF given("patient_gender") THEN Execute(aged, "update_patient", aged.db) ELSE aged

\* how the patient details begin: with an UPDATE ("write"), which takes the
\* write lock, with the ValueError of int() ("raise"), or not at all ("none")
patient_details_first(visit) ==
    LET given(key) == Get(visit, key, "") # ""
    IN IF given("patient_name") \/ given("patient_phone") THEN "write"
       ELSE IF given("patient_age")
       THEN IF visit.patient_age \in DOMAIN Decimal THEN "write" ELSE "raise"
       ELSE IF given("patient_gender") THEN "write"
       ELSE "none"

\* the first write of the handler is the UPDATE of a patient detail
writes_patient(visit) == patient_details_first(visit) = "write"

----------------------------------------------------------------------------
(* POST /api/visits : create_visit *)

\* "Update patient details if provided"
create_visit_patient(c, visit) == patient_details(c, visit, visit.patient_id)

\* INSERT INTO visits; visit_id = cursor.lastrowid
create_visit_insert(c, visit) ==
    LET visit_date == IF Get(visit, "visit_date", 0) # 0 THEN visit.visit_date
                      ELSE c.now
        c2 == Execute(c, "insert_visit",
                      [c.db EXCEPT !.visits =
                          Append(@, [patient_id |-> visit.patient_id,
                                     visit_date |-> visit_date])])
    IN IF c2.outcome = "running" THEN [c2 EXCEPT !.visit_id = Len(c2.db.visits)] ELSE c2

\* a loop that does not test the stock
has_stock_untested(remedy, qty) == TRUE

\* the stock test of one line item: it raises unless this holds
has_stock(remedy, qty) == ~(remedy.stock_quantity < qty)

LineItem(visit_id, remedy_id, qty, price, line_total) ==
    [visit_id |-> visit_id, remedy_id |-> remedy_id, quantity |-> qty,
     unit_price_snapshot |-> price, line_total |-> line_total]

\* one iteration of "for item in visit['medicines']"
create_visit_item(c, item) ==
    IF c.outcome # "running" THEN c
    ELSE IF ~Has(item, "remedy_id") THEN Raise(c, "error")
    ELSE IF item.remedy_id \notin DOMAIN c.db.remedies THEN c
    ELSE LET rid        == item.remedy_id
             remedy     == c.db.remedies[rid]
             price      == remedy.current_unit_price
             qty        == Get(item, "quantity", 1)
             line_total == price * qty
             inserted   == Execute([c EXCEPT !.med_cost = @ + line_total], "insert_line",
                                   [c.db EXCEPT !.visit_medicines =
                                       Append(@, LineItem(c.visit_id, rid, qty, price, line_total))])
         IN IF ~has_stock(remedy, qty)
            THEN [Raise(c, "insufficient_stock") EXCEPT !.remedy = rid]
            ELSE Execute(inserted, "decrement",
                         [inserted.db EXCEPT !.remedies[rid].stock_quantity = @ - qty])

\* a loop that takes the items last first
RECURSIVE create_visit_medicines_reversed(_, _)
create_visit_medicines_reversed(c, items) ==
    IF items = <<>> THEN c
    ELSE create_visit_medicines_reversed(create_visit_item(c, items[Len(items)]),
                                         SubSeq(items, 1, Len(items) - 1))

\* "for item in visit['medicines']": the items in the order submitted
RECURSIVE create_visit_medicines(_, _)
create_visit_medicines(c, items) ==
    IF items = <<>> THEN c
    ELSE create_visit_medicines(create_visit_item(c, Head(items)), Tail(items))

\* the rule with its first two branches exchanged
create_visit_status_paid_first(total_bill, due_amount, amount_paid) ==
    IF due_amount <= 0 THEN "paid"
    ELSE IF total_bill <= 0 THEN "n/a"
    ELSE IF amount_paid > 0 THEN "partially paid"
    ELSE "pending"

\* the status rule of create_visit
create_visit_status(total_bill, due_amount, amount_paid) ==
    IF total_bill <= 0 THEN "n/a"
    ELSE IF due_amount <= 0 THEN "paid"
    ELSE IF amount_paid > 0 THEN "partially paid"
    ELSE "pending"

PaymentRow(visit_id, patient_id, fee, med, paid, due, total, status) ==
    [visit_id |-> visit_id, patient_id |-> patient_id, consultation_fee |-> fee,
     medicine_bill |-> med, amount_paid |-> paid, due_amount |-> due,
     total_bill |-> total, status |-> status]

\* "Create payment record"; patient_id is not among the inserted columns
create_visit_payment(c, visit) ==
    LET consultation_fee == Get(visit, "consultation_fee", 0)
        amount_paid      == Get(visit, "amount_paid", 0)
        total_bill       == consultation_fee + c.med_cost
        due_amount       == total_bill - amount_paid
        status           == create_visit_status(total_bill, due_amount, amount_paid)
    IN Execute(c, "insert_payment",
               [c.db EXCEPT !.payments =
                    Append(@, PaymentRow(c.visit_id, 0, consultation_fee, c.med_cost,
                                         amount_paid, due_amount, total_bill, status))])

\* conn.commit() as the last statement of the try block
Committed(c) ==
    LET c2 == Execute(c, "commit", c.db)
    IN IF c2.outcome = "running" THEN [c2 EXCEPT !.outcome = "ok"] ELSE c2

\* the try block of create_visit from its first write on
create_visit_body(c, visit) ==
    Committed(
        create_visit_payment(
            create_visit_medicines(
                create_visit_insert(create_visit_patient(c, visit), visit),
                Get(visit, "medicines", <<>>)),
            visit))

\* the response of create_visit for each way its try block ends
create_visit_response(c) ==
    CASE c.outcome = "ok" -> Response("create_visit", 200, "Visit created successfully", 0)
      [] c.outcome = "insufficient_stock" ->
            Response("create_visit", 400, "Insufficient stock for remedy", c.remedy)
      [] c.outcome = "store_error" ->
            Response("create_visit", 500, "Error creating visit: store error", 0)
      [] c.outcome = "value_error" ->
            Response("create_visit", 500, "Error creating visit: invalid literal for int()", 0)
      [] OTHER -> Response("create_visit", 500, "Error creating visit: 'remedy_id'", 0)

\* a handler that does not look the patient up
patient_unchecked(d, patient_id) == TRUE

\* SELECT * FROM patients WHERE id = ? returns a row
patient_exists(d, patient_id) == patient_id \in DOMAIN d.patients

create_visit_begin(w, visit) ==
    /\ Accept(w, [op |-> "create_visit", req |-> visit])
    /\ pc' = [pc EXCEPT ![w] = "cv_start"]
    /\ UNCHANGED <<chat, bill>>

\* "Validate patient exists": a read of the committed rows
create_visit_validate(w) ==
    /\ pc[w] = "cv_start"
    /\ IF ~has_table(db, "patients")
       THEN Return(w, Response("create_visit", 500,
                               "Error creating visit: no such table: patients", 0))
       ELSE IF patient_exists(db, Get(tx[w].req, "patient_id", 0))
       THEN /\ pc' = [pc EXCEPT ![w] = "cv_checked"]
            /\ UNCHANGED <<tx, resp>>
       ELSE Return(w, Response("create_visit", 400, "Patient not found", 0))
    /\ UNCHANGED <<db, lock, conc, budget>>
    /\ UNCHANGED <<chat, bill>>

\* a payload without patient details to write: int() raises of an age that is
\* no number, or the handler reads the clock for the visit's date; it has not
\* written yet and holds no lock
create_visit_clock(w) ==
    /\ pc[w] = "cv_checked"
    /\ ~writes_patient(tx[w].req)
    /\ IF patient_details_first(tx[w].req) = "raise"
       THEN Return(w, create_visit_response(Raise(Conn(db, 0), "value_error")))
       ELSE /\ tx' = [tx EXCEPT ![w] = @ @@
                        [now |-> IF Get(tx[w].req, "visit_date", 0) # 0 THEN 0 ELSE Clock]]
            /\ pc' = [pc EXCEPT ![w] = "cv_dated"]
            /\ UNCHANGED resp
    /\ UNCHANGED <<db, lock, conc, budget>>
    /\ UNCHANGED <<chat, bill>>

\* the handler stands at its first write: the INSERT of the visit once the
\* clock is read, or the UPDATE of a patient detail
create_visit_at_write(w) ==
    \/ pc[w] = "cv_dated"
    \/ pc[w] = "cv_checked" /\ writes_patient(tx[w].req)

\* the first write takes the write lock; the rest of the try block runs under
\* it, the reading of the clock too when patient details are written first
create_visit_txn(w) ==
    /\ create_visit_at_write(w)
    /\ write_lock_free(w)
    /\ \E fault \in 0..MaxFault :
          tx' = [tx EXCEPT ![w] =
                    @ @@ [conn |-> create_visit_body(
                                      [Conn(db, fault) EXCEPT
                                          !.now = IF Has(tx[w], "now") THEN tx[w].now
                                                  ELSE Clock],
                                      tx[w].req)]]
    /\ lock' = w
    /\ pc' = [pc EXCEPT ![w] = "cv_done"]
    /\ UNCHANGED <<db, resp, conc, budget>>
    /\ UNCHANGED <<chat, bill>>

\* the wait for the write lock times out: sqlite3.OperationalError, caught by
\* "except Exception"
create_visit_busy(w) ==
    /\ create_visit_at_write(w)
    /\ lock \notin {0, w}
    /\ Return(w, Response("create_visit", 500, "Error creating visit: database is locked", 0))
    /\ UNCHANGED <<db, lock, conc, budget>>
    /\ UNCHANGED <<chat, bill>>

\* return after commit(), or the except clauses' rollback(); finally close()
create_visit_end(w) ==
    /\ pc[w] = "cv_done"
    /\ db' = IF tx[w].conn.outcome = "ok" THEN commit(tx[w].conn, db)
                                          ELSE rollback(tx[w].conn, db)
    /\ Return(w, create_visit_response(tx[w].conn))
    /\ lock' = 0
    /\ UNCHANGED <<conc, budget>>
    /\ UNCHANGED <<chat, bill>>

----------------------------------------------------------------------------
(* PUT /api/visits/{visit_id} : update_visit *)

\* SELECT remedy_id, quantity FROM visit_medicines WHERE visit_id = ?
old_medicines(d, visit_id) ==
    SelectSeq(d.visit_medicines, LAMBDA row : row.visit_id = visit_id)

\* "Update patient name if provided" and the three that follow it, written to
\* the visit's new patient
update_visit_patient(c, visit, new_patient_id) == patient_details(c, visit, new_patient_id)

\* "Restore old stock"
\* an amendment that tests the new line items against the stock as it stands
update_visit_restore_skipped(c, meds) == c

RECURSIVE update_visit_restore(_, _)
update_visit_restore(c, meds) ==
    IF meds = <<>> THEN c
    ELSE LET med == Head(meds)
         IN update_visit_restore(
                Execute(c, "increment",
                        IF med.remedy_id \in DOMAIN c.db.remedies
                        THEN [c.db EXCEPT !.remedies[med.remedy_id].stock_quantity =
                                  @ + med.quantity]
                        ELSE c.db),
                Tail(meds))

\* "Delete old visit medicines"
update_visit_delete(c, visit_id) ==
    Execute(c, "delete_lines",
            [c.db EXCEPT !.visit_medicines = SelectSeq(@, LAMBDA row : row.visit_id # visit_id)])

\* "Update visit details"
update_visit_row(c, visit, visit_id, new_patient_id) ==
    LET visit_date == IF Get(visit, "visit_date", 0) # 0 THEN visit.visit_date
                      ELSE c.now
    IN Execute([c EXCEPT !.visit_id = visit_id], "update_visit",
               IF visit_id \in 1..Len(c.db.visits)
               THEN [c.db EXCEPT !.visits[visit_id] =
                        [patient_id |-> new_patient_id, visit_date |-> visit_date]]
               ELSE c.db)

\* one iteration of "Re-insert medicines if provided"
update_visit_item(c, item) ==
    IF c.outcome # "running" THEN c
    ELSE IF ~Has(item, "remedy_id") THEN Raise(c, "error")
    ELSE IF item.remedy_id \notin DOMAIN c.db.remedies THEN c
    ELSE LET rid        == item.remedy_id
             rem        == c.db.remedies[rid]
             price      == rem.current_unit_price
             qty        == Get(item, "quantity", 1)
             line_total == price * qty
             inserted   == Execute([c EXCEPT !.med_cost = @ + line_total], "insert_line",
                                   [c.db EXCEPT !.visit_medicines =
                                       Append(@, LineItem(c.visit_id, rid, qty, price, line_total))])
         IN IF ~has_stock(rem, qty)
            THEN [Raise(c, "insufficient_stock") EXCEPT !.remedy = rid]
            ELSE Execute(inserted, "decrement",
                         [inserted.db EXCEPT !.remedies[rid].stock_quantity = @ - qty])

RECURSIVE update_visit_medicines(_, _)
update_visit_medicines(c, items) ==
    IF items = <<>> THEN c
    ELSE update_visit_medicines(update_visit_item(c, Head(items)), Tail(items))

\* "Determine payment status" of update_visit
update_visit_status(total_bill, due_amount, amount_paid) ==
    IF total_bill <= 0 THEN "n/a"
    ELSE IF due_amount <= 0 THEN "paid"
    ELSE IF amount_paid > 0 THEN "partially paid"
    ELSE "pending"

\* a handler that inserts a payment row whether or not the visit has one
update_visit_payment_second_row(c, visit, visit_id, new_patient_id) ==
    LET consultation_fee == Get(visit, "consultation_fee", 0)
        amount_paid      == Get(visit, "amount_paid", 0)
        total_bill       == consultation_fee + c.med_cost
        due_amount       == total_bill - amount_paid
        status           == update_visit_status(total_bill, due_amount, amount_paid)
    IN Execute(c, "insert_payment",
               [c.db EXCEPT !.payments =
                    Append(@, PaymentRow(visit_id, new_patient_id, consultation_fee,
                                         c.med_cost, amount_paid, due_amount, total_bill,
                                         status))])

\* a handler that keeps the stored fee and amount paid the payload omits
update_visit_payment_carrying(c, visit, visit_id, new_patient_id) ==
    LET held == {i \in 1..Len(c.db.payments) : c.db.payments[i].visit_id = visit_id}
        kept == IF held = {} THEN PaymentRow(0, 0, 0, 0, 0, 0, 0, "")
                ELSE c.db.payments[CHOOSE i \in held : TRUE]
        consultation_fee == Get(visit, "consultation_fee", kept.consultation_fee)
        amount_paid      == Get(visit, "amount_paid", kept.amount_paid)
        total_bill       == consultation_fee + c.med_cost
        due_amount       == total_bill - amount_paid
        row              == PaymentRow(visit_id, new_patient_id, consultation_fee, c.med_cost,
                                       amount_paid, due_amount, total_bill,
                                       update_visit_status(total_bill, due_amount, amount_paid))
    IN IF c.outcome # "running" THEN c
       ELSE IF held # {}
       THEN Execute(c, "update_payment",
                    [c.db EXCEPT !.payments =
                        [i \in 1..Len(@) |-> IF @[i].visit_id = visit_id THEN row ELSE @[i]]])
       ELSE Execute(c, "insert_payment", [c.db EXCEPT !.payments = Append(@, row)])

\* "Update/Create payment record"
update_visit_payment(c, visit, visit_id, new_patient_id) ==
    LET existing_payment == \E i \in 1..Len(c.db.payments) : c.db.payments[i].visit_id = visit_id
        consultation_fee == Get(visit, "consultation_fee", 0)
        amount_paid      == Get(visit, "amount_paid", 0)
        medicine_bill    == c.med_cost
        total_bill       == consultation_fee + medicine_bill
        due_amount       == total_bill - amount_paid
        status           == update_visit_status(total_bill, due_amount, amount_paid)
        row              == PaymentRow(visit_id, new_patient_id, consultation_fee, medicine_bill,
                                       amount_paid, due_amount, total_bill, status)
    IN IF c.outcome # "running" THEN c
       ELSE IF existing_payment
       THEN Execute(c, "update_payment",
                    [c.db EXCEPT !.payments =
                        [i \in 1..Len(@) |-> IF @[i].visit_id = visit_id THEN row ELSE @[i]]])
       ELSE Execute(c, "insert_payment", [c.db EXCEPT !.payments = Append(@, row)])

\* the try block of update_visit from its first write on.  The old line items
\* were read before the transaction opened unless a patient detail was written
\* first (t.old_medicines is that earlier read).
update_visit_body(c, t) ==
    LET c1  == update_visit_patient(c, t.req, t.new_patient_id)
        old == IF writes_patient(t.req)
               THEN old_medicines(c1.db, t.visit_id)
               ELSE t.old_medicines
        c2  == update_visit_row(
                   update_visit_delete(update_visit_restore(c1, old), t.visit_id),
                   t.req, t.visit_id, t.new_patient_id)
        c3  == update_visit_medicines(c2, Get(t.req, "medicines", <<>>))
    IN Committed(update_visit_payment(c3, t.req, t.visit_id, t.new_patient_id))

update_visit_response(c) ==
    CASE c.outcome = "ok" -> Response("update_visit", 200, "Visit updated successfully", 0)
      [] c.outcome = "insufficient_stock" ->
            Response("update_visit", 400, "Insufficient stock for remedy", c.remedy)
      [] c.outcome = "store_error" ->
            Response("update_visit", 500, "Error updating visit: store error", 0)
      [] c.outcome = "value_error" ->
            Response("update_visit", 500, "Error updating visit: invalid literal for int()", 0)
      [] OTHER -> Response("update_visit", 500, "Error updating visit: 'remedy_id'", 0)

any_role(role) == TRUE

\* the role gate of update_visit and update_payment: the caller's role is compared
\* with 'admin' before a connection is opened
is_admin(role) == role = "admin"

update_visit_begin(w, visit_id, visit, role) ==
    /\ Accept(w, [op |-> "update_visit", req |-> visit, visit_id |-> visit_id, role |-> role])
    /\ pc' = [pc EXCEPT ![w] = "uv_start"]
    /\ UNCHANGED <<chat, bill>>

\* where update_visit stands once the patient is settled: at its first write
\* when that is a patient detail, at its end when int() raises of the age
\* before any write, else at the read of the old line items
update_visit_after_patient(visit) ==
    CASE patient_details_first(visit) = "write" -> "uv_checked"
      [] patient_details_first(visit) = "raise" -> "idle"
      [] OTHER -> "uv_patient"

\* the step that settles the patient: the handler goes on, or raises
update_visit_goes_on(w, next, new_patient_id) ==
    IF next = "idle"
    THEN Return(w, update_visit_response(Raise(Conn(db, 0), "value_error")))
    ELSE /\ pc' = [pc EXCEPT ![w] = next]
         /\ tx' = [tx EXCEPT ![w] = [new_patient_id |-> new_patient_id] @@ @]
         /\ UNCHANGED resp

\* the role gate, then "Check if visit exists": a read of the committed visit
\* row, whose patient_id the handler keeps
update_visit_validate(w) ==
    /\ pc[w] = "uv_start"
    /\ LET visit    == tx[w].req
           visit_id == tx[w].visit_id
       IN IF ~is_admin(tx[w].role)
          THEN Return(w, Response("update_visit", 403, "Permission denied", 0))
          ELSE IF ~has_table(db, "visits")
          THEN Return(w, Response("update_visit", 500,
                                  "Error updating visit: no such table: visits", 0))
          ELSE IF visit_id \notin 1..Len(db.visits)
          THEN Return(w, Response("update_visit", 404, "Visit not found", 0))
          ELSE LET old_patient_id == db.visits[visit_id].patient_id
                   new_patient_id == Get(visit, "patient_id", 0)
                   changed        == new_patient_id # 0 /\ new_patient_id # old_patient_id
               IN update_visit_goes_on(
                      w,
                      IF changed THEN "uv_visit" ELSE update_visit_after_patient(visit),
                      IF new_patient_id = 0 THEN old_patient_id ELSE new_patient_id)
    /\ UNCHANGED <<db, lock, conc, budget>>
    /\ UNCHANGED <<chat, bill>>

\* "If patient changed, validate new patient exists": a read of the committed
\* patients, made after the read of the visit
update_visit_patient_exists(w) ==
    /\ pc[w] = "uv_visit"
    /\ IF tx[w].new_patient_id \notin DOMAIN db.patients
       THEN Return(w, Response("update_visit", 400, "Patient not found", 0))
       ELSE update_visit_goes_on(w, update_visit_after_patient(tx[w].req),
                                 tx[w].new_patient_id)
    /\ UNCHANGED <<db, lock, conc, budget>>
    /\ UNCHANGED <<chat, bill>>

\* "Get all old visit medicines to restore stock": a read of the committed line
\* items, made before the first write when no patient detail is written
update_visit_old_medicines(w) ==
    /\ pc[w] = "uv_patient"
    /\ tx' = [tx EXCEPT ![w] = @ @@ [old_medicines |-> old_medicines(db, tx[w].visit_id)]]
    /\ pc' = [pc EXCEPT ![w] = "uv_checked"]
    /\ UNCHANGED <<db, lock, resp, conc, budget>>
    /\ UNCHANGED <<chat, bill>>

update_visit_txn(w) ==
    /\ pc[w] = "uv_checked"
    /\ write_lock_free(w)
    /\ \E fault \in 0..MaxFault :
          tx' = [tx EXCEPT ![w] = @ @@
                    [conn |-> update_visit_body([Conn(db, fault) EXCEPT !.now = Clock],
                                                tx[w])]]
    /\ lock' = w
    /\ pc' = [pc EXCEPT ![w] = "uv_done"]
    /\ UNCHANGED <<db, resp, conc, budget>>
    /\ UNCHANGED <<chat, bill>>

update_visit_busy(w) ==
    /\ pc[w] = "uv_checked"
    /\ lock \notin {0, w}
    /\ Return(w, Response("update_visit", 500, "Error updating visit: database is locked", 0))
    /\ UNCHANGED <<db, lock, conc, budget>>
    /\ UNCHANGED <<chat, bill>>

\* an error path that closes the connection without discarding its writes
update_visit_end_without_rollback(w) ==
    /\ pc[w] = "uv_done"
    /\ db' = tx[w].conn.db
    /\ Return(w, update_visit_response(tx[w].conn))
    /\ lock' = 0
    /\ UNCHANGED <<conc, budget>>
    /\ UNCHANGED <<chat, bill>>

update_visit_end(w) ==
    /\ pc[w] = "uv_done"
    /\ db' = IF tx[w].conn.outcome = "ok" THEN commit(tx[w].conn, db)
                                          ELSE rollback(tx[w].conn, db)
    /\ Return(w, update_visit_response(tx[w].conn))
    /\ lock' = 0
    /\ UNCHANGED <<conc, budget>>
    /\ UNCHANGED <<chat, bill>>

----------------------------------------------------------------------------
(* PUT /api/visits/{visit_id}/payment : update_payment *)

\* the rule without its second line, "if total == 0: status = 'n/a'"
update_payment_status_without_na(total, due, paid) ==
    LET first == IF due <= 0 THEN "paid" ELSE "partially paid"
    IN IF paid = 0 /\ total > 0 THEN "pending" ELSE first

\* the status rule of update_payment
update_payment_status(total, due, paid) ==
    LET first  == IF due <= 0 THEN "paid" ELSE "partially paid"
        second == IF total = 0 THEN "n/a" ELSE first
    IN IF paid = 0 /\ total > 0 THEN "pending" ELSE second

\* a handler that takes the status from the payload when it has one
update_payment_row_trusting(payment, current) ==
    LET consult  == Get(payment, "consultation_fee", current.consultation_fee)
        med_bill == Get(payment, "medicine_bill", current.medicine_bill)
        paid     == Get(payment, "amount_paid", current.amount_paid)
        total    == consult + med_bill
        due      == total - paid
    IN [consultation_fee |-> consult, medicine_bill |-> med_bill, total_bill |-> total,
        amount_paid |-> paid, due_amount |-> due,
        status |-> Get(payment, "status", update_payment_status(total, due, paid))]

\* a handler that reads a figure the payload omits as 0
update_payment_row_defaults_zero(payment, current) ==
    LET consult  == Get(payment, "consultation_fee", 0)
        med_bill == Get(payment, "medicine_bill", 0)
        paid     == Get(payment, "amount_paid", 0)
        total    == consult + med_bill
        due      == total - paid
    IN [consultation_fee |-> consult, medicine_bill |-> med_bill, total_bill |-> total,
        amount_paid |-> paid, due_amount |-> due,
        status |-> update_payment_status(total, due, paid)]

\* a handler that takes the due amount from the total it read
update_payment_row_stale_total(payment, current) ==
    LET consult  == Get(payment, "consultation_fee", current.consultation_fee)
        med_bill == Get(payment, "medicine_bill", current.medicine_bill)
        paid     == Get(payment, "amount_paid", current.amount_paid)
        total    == consult + med_bill
        due      == current.total_bill - paid
    IN [consultation_fee |-> consult, medicine_bill |-> med_bill, total_bill |-> total,
        amount_paid |-> paid, due_amount |-> due,
        status |-> update_payment_status(total, due, paid)]

\* SELECT * FROM payments WHERE visit_id=? ... fetchone(): the index of the
\* first payment row of the visit, 0 if it has none
current_payment(d, visit_id) ==
    LET found == {i \in 1..Len(d.payments) : d.payments[i].visit_id = visit_id}
    IN IF found = {} THEN 0 ELSE CHOOSE i \in found : \A j \in found : i <= j

\* the figures update_payment writes, from the payload and the row it read
update_payment_row(payment, current) ==
    LET consult  == Get(payment, "consultation_fee", current.consultation_fee)
        med_bill == Get(payment, "medicine_bill", current.medicine_bill)
        paid     == Get(payment, "amount_paid", current.amount_paid)
        total    == consult + med_bill
        due      == total - paid
    IN [consultation_fee |-> consult, medicine_bill |-> med_bill, total_bill |-> total,
        amount_paid |-> paid, due_amount |-> due,
        status |-> update_payment_status(total, due, paid)]

\* UPDATE payments SET ... WHERE visit_id = ?
update_payment_body(c, visit_id, new) ==
    Execute(c, "update_payment",
            [c.db EXCEPT !.payments =
                [i \in 1..Len(@) |->
                    IF @[i].visit_id = visit_id
                    THEN [@[i] EXCEPT !.consultation_fee = new.consultation_fee,
                                      !.medicine_bill = new.medicine_bill,
                                      !.total_bill = new.total_bill,
                                      !.amount_paid = new.amount_paid,
                                      !.due_amount = new.due_amount,
                                      !.status = new.status]
                    ELSE @[i]]])

update_payment_begin(w, visit_id, payment, role) ==
    /\ Accept(w, [op |-> "update_payment", req |-> payment, visit_id |-> visit_id,
                  role |-> role])
    /\ pc' = [pc EXCEPT ![w] = "up_start"]
    /\ UNCHANGED <<chat, bill>>

\* the role gate, then the read of the current row
update_payment_validate(w) ==
    /\ pc[w] = "up_start"
    /\ LET i == current_payment(db, tx[w].visit_id)
       IN IF ~is_admin(tx[w].role)
          THEN Return(w, Response("update_payment", 403, "Permission denied", 0))
          ELSE IF ~has_table(db, "payments")
          THEN Return(w, Response("update_payment", 500, "Internal Server Error", 0))
          ELSE IF i = 0
          THEN Return(w, Response("update_payment", 404, "Visit payment not found", 0))
          ELSE /\ pc' = [pc EXCEPT ![w] = "up_checked"]
               /\ tx' = [tx EXCEPT ![w] = @ @@ [current |-> db.payments[i]]]
               /\ UNCHANGED resp
    /\ UNCHANGED <<db, lock, conc, budget>>
    /\ UNCHANGED <<chat, bill>>

\* the UPDATE takes the write lock; commit() follows it
update_payment_txn(w) ==
    /\ pc[w] = "up_checked"
    /\ write_lock_free(w)
    /\ \E fault \in 0..MaxFault :
          tx' = [tx EXCEPT ![w] = @ @@
                    [conn |-> Committed(update_payment_body(
                                  Conn(db, fault), tx[w].visit_id,
                                  update_payment_row(tx[w].req, tx[w].current)))]]
    /\ lock' = w
    /\ pc' = [pc EXCEPT ![w] = "up_done"]
    /\ UNCHANGED <<db, resp, conc, budget>>
    /\ UNCHANGED <<chat, bill>>

\* the wait for the write lock times out; the exception leaves the handler
update_payment_busy(w) ==
    /\ pc[w] = "up_checked"
    /\ lock \notin {0, w}
    /\ Return(w, Response("update_payment", 500, "Internal Server Error", 0))
    /\ UNCHANGED <<db, lock, conc, budget>>
    /\ UNCHANGED <<chat, bill>>

\* return after commit(); an exception leaves through "finally: conn.close()",
\* which discards what was not committed
update_payment_end(w) ==
    /\ pc[w] = "up_done"
    /\ db' = IF tx[w].conn.outcome = "ok" THEN commit(tx[w].conn, db)
                                          ELSE rollback(tx[w].conn, db)
    /\ Return(w, IF tx[w].conn.outcome = "ok"
                 THEN Response("update_payment", 200, "Payment updated", 0)
                 ELSE Response("update_payment", 500, "Internal Server Error", 0))
    /\ lock' = 0
    /\ UNCHANGED <<conc, budget>>
    /\ UNCHANGED <<chat, bill>>

----------------------------------------------------------------------------
(* POST /api/patients, PUT /api/patients/{patient_id} *)

\* INSERT INTO patients: the new row gets the next id
create_patient_body(c, patient) ==
    Execute(c, "insert_patient",
            [c.db EXCEPT !.patients = Append(@, [name |-> patient.name])])

\* UPDATE patients SET name=?, ... WHERE id=?; a key the payload omits is
\* written as NULL (here "")
update_patient_body(c, patient_id, patient) ==
    Execute(c, "update_patient",
            IF patient_id \in DOMAIN c.db.patients
            THEN [c.db EXCEPT !.patients[patient_id].name = Get(patient, "name", "")]
            ELSE c.db)

\* how a patient handler answers for each way its try block ends: an
\* sqlite3.IntegrityError is answered 400, any other store error leaves the
\* handler uncaught
patient_responses(op, c, done) ==
    IF c.outcome = "ok" THEN {Response(op, 200, done, 0)}
    ELSE {Response(op, 400, "Database error", 0),
          Response(op, 500, "Internal Server Error", 0)}

create_patient_begin(w, patient) ==
    /\ Accept(w, [op |-> "create_patient", req |-> patient])
    /\ pc' = [pc EXCEPT ![w] = "cp_start"]
    /\ UNCHANGED <<chat, bill>>

\* the INSERT takes the write lock; commit() follows it.  Where the table
\* does not exist the INSERT raises sqlite3.OperationalError, which no except
\* clause of the handler catches, and no lock is taken.
create_patient_txn(w) ==
    /\ pc[w] = "cp_start"
    /\ IF has_table(db, "patients")
       THEN /\ write_lock_free(w)
            /\ \E fault \in 0..MaxFault :
                  tx' = [tx EXCEPT ![w] = @ @@
                            [conn |-> Committed(create_patient_body(Conn(db, fault),
                                                                    tx[w].req))]]
            /\ lock' = w
            /\ pc' = [pc EXCEPT ![w] = "cp_done"]
            /\ UNCHANGED resp
       ELSE /\ Return(w, Response("create_patient", 500, "Internal Server Error", 0))
            /\ UNCHANGED lock
    /\ UNCHANGED <<db, conc, budget>>
    /\ UNCHANGED <<chat, bill>>

\* the wait for the write lock times out: sqlite3.OperationalError, which
\* "except sqlite3.IntegrityError" does not catch
create_patient_busy(w) ==
    /\ pc[w] = "cp_start"
    /\ lock \notin {0, w}
    /\ Return(w, Response("create_patient", 500, "Internal Server Error", 0))
    /\ UNCHANGED <<db, lock, conc, budget>>
    /\ UNCHANGED <<chat, bill>>

create_patient_end(w) ==
    /\ pc[w] = "cp_done"
    /\ db' = IF tx[w].conn.outcome = "ok" THEN commit(tx[w].conn, db)
                                          ELSE rollback(tx[w].conn, db)
    /\ \E response \in patient_responses("create_patient", tx[w].conn,
                                         "Patient created successfully") :
          Return(w, response)
    /\ lock' = 0
    /\ UNCHANGED <<conc, budget>>
    /\ UNCHANGED <<chat, bill>>

\* any role may call update_patient: its role gate is commented out
update_patient_begin(w, patient_id, patient) ==
    /\ Accept(w, [op |-> "update_patient", req |-> patient, patient_id |-> patient_id])
    /\ pc' = [pc EXCEPT ![w] = "pp_start"]
    /\ UNCHANGED <<chat, bill>>

\* "Check if patient exists": a read of the committed rows
update_patient_validate(w) ==
    /\ pc[w] = "pp_start"
    /\ IF ~has_table(db, "patients")
       THEN Return(w, Response("update_patient", 500, "Internal Server Error", 0))
       ELSE IF patient_exists(db, tx[w].patient_id)
       THEN /\ pc' = [pc EXCEPT ![w] = "pp_checked"]
            /\ UNCHANGED <<tx, resp>>
       ELSE Return(w, Response("update_patient", 404, "Patient not found", 0))
    /\ UNCHANGED <<db, lock, conc, budget>>
    /\ UNCHANGED <<chat, bill>>

update_patient_txn(w) ==
    /\ pc[w] = "pp_checked"
    /\ write_lock_free(w)
    /\ \E fault \in 0..MaxFault :
          tx' = [tx EXCEPT ![w] = @ @@
                    [conn |-> Committed(update_patient_body(Conn(db, fault), tx[w].patient_id,
                                                            tx[w].req))]]
    /\ lock' = w
    /\ pc' = [pc EXCEPT ![w] = "pp_done"]
    /\ UNCHANGED <<db, resp, conc, budget>>
    /\ UNCHANGED <<chat, bill>>

update_patient_busy(w) ==
    /\ pc[w] = "pp_checked"
    /\ lock \notin {0, w}
    /\ Return(w, Response("update_patient", 500, "Internal Server Error", 0))
    /\ UNCHANGED <<db, lock, conc, budget>>
    /\ UNCHANGED <<chat, bill>>

update_patient_end(w) ==
    /\ pc[w] = "pp_done"
    /\ db' = IF tx[w].conn.outcome = "ok" THEN commit(tx[w].conn, db)
                                          ELSE rollback(tx[w].conn, db)
    /\ \E response \in patient_responses("update_patient", tx[w].conn,
                                         "Patient updated successfully") :
          Return(w, response)
    /\ lock' = 0
    /\ UNCHANGED <<conc, budget>>
    /\ UNCHANGED <<chat, bill>>

----------------------------------------------------------------------------
(* POST /api/remedies, PUT and DELETE /api/remedies/{remedy_id} *)

\* cursor.lastrowid of the INSERT INTO remedies: one more than the largest id
\* in the table or, where schema.sql declares the id AUTOINCREMENT, than the
\* largest id the table has held
lastrowid(d) ==
    LET ids == DOMAIN d.remedies \cup {0}
    IN {1 + CHOOSE m \in ids : \A x \in ids : x <= m, 1 + d.remedy_seq}

\* INSERT INTO remedies
create_remedy_body(c, remedy, id) ==
    Execute(c, "insert_remedy",
            [c.db EXCEPT !.remedies =
                            (id :> RemedyRow(remedy.current_unit_price, remedy.stock_quantity))
                                @@ @,
                         !.remedy_seq = IF id > @ THEN id ELSE @])

\* an UPDATE that also reprices the line items already recorded for the remedy
update_remedy_body_repricing(c, remedy_id, remedy) ==
    LET price  == remedy.current_unit_price
        lines  == c.db.visit_medicines
        priced == [i \in 1..Len(lines) |->
                      IF lines[i].remedy_id = remedy_id
                      THEN [lines[i] EXCEPT !.unit_price_snapshot = price,
                                            !.line_total = price * lines[i].quantity]
                      ELSE lines[i]]
    IN Execute(c, "update_remedy",
               IF remedy_id \in DOMAIN c.db.remedies
               THEN [c.db EXCEPT !.remedies[remedy_id] =
                                     RemedyRow(price, remedy.stock_quantity),
                                 !.visit_medicines = priced]
               ELSE c.db)

\* UPDATE remedies SET ..., current_unit_price=?, stock_quantity=? WHERE id=?
update_remedy_body(c, remedy_id, remedy) ==
    Execute(c, "update_remedy",
            IF remedy_id \in DOMAIN c.db.remedies
            THEN [c.db EXCEPT !.remedies[remedy_id] =
                      RemedyRow(remedy.current_unit_price, remedy.stock_quantity)]
            ELSE c.db)

\* DELETE FROM remedies WHERE id = ?; the line items that name the remedy stay
delete_remedy_body(c, remedy_id) ==
    Execute(c, "delete_remedy",
            [c.db EXCEPT !.remedies = [r \in DOMAIN @ \ {remedy_id} |-> @[r]]])

\* the role gate of the remedy handlers, tested before a connection is opened
manages_inventory(role) == role \in {"admin", "doctor"}

\* the gate of a remedy handler: 403 at once, or on to its one write
\* statement, which raises sqlite3.OperationalError where the table does not
\* exist
remedy_gate(w, op, checked) ==
    /\ IF ~manages_inventory(tx[w].role)
       THEN Return(w, Response(op, 403, "Permission denied", 0))
       ELSE IF ~has_table(db, "remedies")
       THEN Return(w, Response(op, 500, "Internal Server Error", 0))
       ELSE /\ pc' = [pc EXCEPT ![w] = checked]
            /\ UNCHANGED <<tx, resp>>
    /\ UNCHANGED <<db, lock, conc, budget>>
    /\ UNCHANGED <<chat, bill>>

\* the wait of a handler without except clause for the write lock times out:
\* sqlite3.OperationalError leaves the handler through "finally: conn.close()"
remedy_busy(w, op) ==
    /\ lock \notin {0, w}
    /\ Return(w, Response(op, 500, "Internal Server Error", 0))
    /\ UNCHANGED <<db, lock, conc, budget>>
    /\ UNCHANGED <<chat, bill>>

\* return after commit(); an exception leaves through "finally: conn.close()",
\* which discards what was not committed
remedy_end(w, op, done) ==
    /\ db' = IF tx[w].conn.outcome = "ok" THEN commit(tx[w].conn, db)
                                          ELSE rollback(tx[w].conn, db)
    /\ Return(w, IF tx[w].conn.outcome = "ok" THEN Response(op, 200, done, 0)
                 ELSE Response(op, 500, "Internal Server Error", 0))
    /\ lock' = 0
    /\ UNCHANGED <<conc, budget>>
    /\ UNCHANGED <<chat, bill>>

create_remedy_begin(w, remedy, role) ==
    /\ Accept(w, [op |-> "create_remedy", req |-> remedy, role |-> role])
    /\ pc' = [pc EXCEPT ![w] = "cr_start"]
    /\ UNCHANGED <<chat, bill>>

create_remedy_validate(w) ==
    /\ pc[w] = "cr_start"
    /\ remedy_gate(w, "create_remedy", "cr_checked")

\* the INSERT takes the write lock; commit() follows it
create_remedy_txn(w) ==
    /\ pc[w] = "cr_checked"
    /\ write_lock_free(w)
    /\ \E fault \in 0..MaxFault, id \in lastrowid(db) :
          tx' = [tx EXCEPT ![w] = @ @@
                    [conn |-> Committed(create_remedy_body(Conn(db, fault), tx[w].req, id))]]
    /\ lock' = w
    /\ pc' = [pc EXCEPT ![w] = "cr_done"]
    /\ UNCHANGED <<db, resp, conc, budget>>
    /\ UNCHANGED <<chat, bill>>

create_remedy_busy(w) ==
    /\ pc[w] = "cr_checked"
    /\ remedy_busy(w, "create_remedy")

create_remedy_end(w) ==
    /\ pc[w] = "cr_done"
    /\ remedy_end(w, "create_remedy", "Remedy added")

update_remedy_begin(w, remedy_id, remedy, role) ==
    /\ Accept(w, [op |-> "update_remedy", req |-> remedy, remedy_id |-> remedy_id,
                  role |-> role])
    /\ pc' = [pc EXCEPT ![w] = "ur_start"]
    /\ UNCHANGED <<chat, bill>>

update_remedy_validate(w) ==
    /\ pc[w] = "ur_start"
    /\ remedy_gate(w, "update_remedy", "ur_checked")

\* the UPDATE takes the write lock, whether or not a row has the id
update_remedy_txn(w) ==
    /\ pc[w] = "ur_checked"
    /\ write_lock_free(w)
    /\ \E fault \in 0..MaxFault :
          tx' = [tx EXCEPT ![w] = @ @@
                    [conn |-> Committed(update_remedy_body(Conn(db, fault), tx[w].remedy_id,
                                                           tx[w].req))]]
    /\ lock' = w
    /\ pc' = [pc EXCEPT ![w] = "ur_done"]
    /\ UNCHANGED <<db, resp, conc, budget>>
    /\ UNCHANGED <<chat, bill>>

update_remedy_busy(w) ==
    /\ pc[w] = "ur_checked"
    /\ remedy_busy(w, "update_remedy")

update_remedy_end(w) ==
    /\ pc[w] = "ur_done"
    /\ remedy_end(w, "update_remedy", "Remedy updated")

delete_remedy_begin(w, remedy_id, role) ==
    /\ Accept(w, [op |-> "delete_remedy", remedy_id |-> remedy_id, role |-> role])
    /\ pc' = [pc EXCEPT ![w] = "dr_start"]
    /\ UNCHANGED <<chat, bill>>

delete_remedy_validate(w) ==
    /\ pc[w] = "dr_start"
    /\ remedy_gate(w, "delete_remedy", "dr_checked")

\* the DELETE takes the write lock, whether or not a row has the id
delete_remedy_txn(w) ==
    /\ pc[w] = "dr_checked"
    /\ write_lock_free(w)
    /\ \E fault \in 0..MaxFault :
          tx' = [tx EXCEPT ![w] = @ @@
                    [conn |-> Committed(delete_remedy_body(Conn(db, fault), tx[w].remedy_id))]]
    /\ lock' = w
    /\ pc' = [pc EXCEPT ![w] = "dr_done"]
    /\ UNCHANGED <<db, resp, conc, budget>>
    /\ UNCHANGED <<chat, bill>>

delete_remedy_busy(w) ==
    /\ pc[w] = "dr_checked"
    /\ remedy_busy(w, "delete_remedy")

delete_remedy_end(w) ==
    /\ pc[w] = "dr_done"
    /\ remedy_end(w, "delete_remedy", "Remedy deleted")

----------------------------------------------------------------------------
(* POST /api/expenses : add_expense *)

\* INSERT INTO expenses: category and amount are declared NOT NULL, so the
\* INSERT of a payload without one of them raises sqlite3.IntegrityError
add_expense_body(c, expense) ==
    IF Has(expense, "category") /\ Has(expense, "amount")
    THEN Execute(c, "insert_expense",
                 [c.db EXCEPT !.expenses =
                     Append(@, [category |-> expense.category, amount |-> expense.amount])])
    ELSE Raise(c, "store_error")

add_expense_begin(w, expense, role) ==
    /\ Accept(w, [op |-> "add_expense", req |-> expense, role |-> role])
    /\ pc' = [pc EXCEPT ![w] = "ae_start"]
    /\ UNCHANGED <<chat, bill>>

\* the role gate, before a connection is opened
add_expense_validate(w) ==
    /\ pc[w] = "ae_start"
    /\ IF is_admin(tx[w].role)
       THEN /\ pc' = [pc EXCEPT ![w] = "ae_checked"]
            /\ UNCHANGED <<tx, resp>>
       ELSE Return(w, Response("add_expense", 403, "Access denied", 0))
    /\ UNCHANGED <<db, lock, conc, budget>>
    /\ UNCHANGED <<chat, bill>>

\* the INSERT takes the write lock; commit() follows it
add_expense_txn(w) ==
    /\ pc[w] = "ae_checked"
    /\ write_lock_free(w)
    /\ \E fault \in 0..MaxFault :
          tx' = [tx EXCEPT ![w] = @ @@
                    [conn |-> Committed(add_expense_body(Conn(db, fault), tx[w].req))]]
    /\ lock' = w
    /\ pc' = [pc EXCEPT ![w] = "ae_done"]
    /\ UNCHANGED <<db, resp, conc, budget>>
    /\ UNCHANGED <<chat, bill>>

add_expense_busy(w) ==
    /\ pc[w] = "ae_checked"
    /\ remedy_busy(w, "add_expense")

add_expense_end(w) ==
    /\ pc[w] = "ae_done"
    /\ remedy_end(w, "add_expense", "Expense recorded successfully")

----------------------------------------------------------------------------
(* GET /api/visits : list_visits *)

\* ORDER BY v.visit_date DESC: the ways to list the joined pairs (visit,
\* payment row), the latest date first; the query does not fix the order of
\* rows of one date
RECURSIVE by_visit_date(_, _)
by_visit_date(d, pairs) ==
    IF pairs = {} THEN {<<>>}
    ELSE UNION {{<<p>> \o rest : rest \in by_visit_date(d, pairs \ {p})} :
                   p \in {q \in pairs : \A o \in pairs :
                             d.visits[o[1]].visit_date <= d.visits[q[1]].visit_date}}

\* a row of the query: v.*, the patient's name and the figures of a payment row
\* (pay = 0, the visit has none: NULL, here 0 and "")
list_visits_row(d, v, pay) ==
    LET row == IF pay = 0 THEN PaymentRow(0, 0, 0, 0, 0, 0, 0, "") ELSE d.payments[pay]
    IN [id |-> v, patient_id |-> d.visits[v].patient_id,
        visit_date |-> d.visits[v].visit_date,
        patient_name |-> d.patients[d.visits[v].patient_id].name,
        total_bill |-> row.total_bill, amount_paid |-> row.amount_paid,
        due_amount |-> row.due_amount, payment_status |-> row.status,
        consultation_fee |-> row.consultation_fee, medicine_bill |-> row.medicine_bill]

\* a query that joins the payments on the patient they name
list_visits_joined_on_patient(d) ==
    LET shown == {v \in 1..Len(d.visits) : d.visits[v].patient_id \in DOMAIN d.patients}
        paid  == {p \in shown \X (1..Len(d.payments)) :
                     d.payments[p[2]].patient_id = d.visits[p[1]].patient_id}
        bare  == {<<v, 0>> : v \in {u \in shown : \A p \in paid : p[1] # u}}
    IN {[i \in 1..Len(rows) |-> list_visits_row(d, rows[i][1], rows[i][2])] :
           rows \in by_visit_date(d, paid \cup bare)}

\* the lists the query may return: one row for every visit whose patient exists
\* and each of its payment rows (one row of NULL figures when it has none), in
\* the order of the ORDER BY; none where the tables do not exist and the query
\* raises
list_visits(d) ==
    IF ~has_table(d, "visits") THEN {} ELSE
    LET shown == {v \in 1..Len(d.visits) : d.visits[v].patient_id \in DOMAIN d.patients}
        paid  == {p \in shown \X (1..Len(d.payments)) : d.payments[p[2]].visit_id = p[1]}
        bare  == {<<v, 0>> : v \in {u \in shown : \A p \in paid : p[1] # u}}
    IN {[i \in 1..Len(rows) |-> list_visits_row(d, rows[i][1], rows[i][2])] :
           rows \in by_visit_date(d, paid \cup bare)}

----------------------------------------------------------------------------
(* ChatService (src/ml_service.py) *)

\* calls of load_model in one behaviour
MaxLoads == 2
\* calls of get_response in one behaviour
MaxQuestions == 1

\* the models in priority order
MODELS == <<"tinyllama-1.1b-chat-v1.0.Q4_0.gguf", "orca-mini-3b-gguf2-q4_0.gguf">>

\* _model = None
NoModel == [name |-> "", device |-> ""]

\* no call of get_response yet
NoReply == [message |-> "", text |-> "", raised |-> "", called_model |-> FALSE]

\* db_path="chamber.db", the file init_database of app.py leaves when it finds
\* no schema.sql: a database with none of the tables the chat service reads
chamber_db ==
    [file |-> "database", tables |-> {}, medicines |-> <<>>, sales |-> <<>>, patients |-> 0]

\* The file at db_path as sqlite3 finds it: one that cannot be opened, one
\* that is no database, a database another connection holds locked, or a
\* database with some of the tables the queries name.
Databases ==
    {[chamber_db EXCEPT !.file = f] : f \in {"database", "unopenable", "not_a_database"}}
      \cup {[file |-> "database", tables |-> {"patients"},
              medicines |-> <<>>, sales |-> <<>>, patients |-> 0]}
      \cup {[file |-> f, tables |-> {"medicines", "sales", "patients"},
              medicines |-> m, sales |-> s, patients |-> p] :
                f \in {"database", "locked"},
                m \in {<<>>, <<[name |-> "Arnica", type |-> "Dilution", stock |-> 4],
                               [name |-> "Bryonia", type |-> "Globules", stock |-> 0]>>},
                s \in {<<>>, <<5, 7>>},
                p \in {0, 2}}

\* the class as defined (_model and _model_name None) and an instance on the
\* database file at db_path, in a working directory that holds the given model
\* files, with no call in progress
ChatService(files, database) ==
    [model |-> NoModel, model_name |-> "", files |-> files, database |-> database,
     pc |-> "idle", i |-> 0, attempts |-> <<>>,
     loads |-> 0, questions |-> 0, reply |-> NoReply]

\* the clinic's request handlers take no part in a call of the chat service
clinic_idle == UNCHANGED <<db, lock, pc, tx, resp, conc, budget, bill>>

\* a loader that tries every model, present or not
skips_nothing(model_name, file_exists) == FALSE

\* "if model_name != MODELS[0] and not file_exists: continue"
skips(model_name, file_exists) == model_name # MODELS[1] /\ ~file_exists

\* load_model is called: it returns at once when a model is loaded, else it
\* enters the loop over MODELS
load_model_begin ==
    /\ chat.pc = "idle"
    /\ chat.loads < MaxLoads
    /\ chat' = IF chat.model # NoModel
               THEN [chat EXCEPT !.loads = @ + 1]
               ELSE [chat EXCEPT !.loads = @ + 1, !.pc = "loop", !.i = 1,
                                 !.attempts = <<>>]
    /\ clinic_idle

\* the head of the loop: the next model becomes _model_name and is tried unless
\* it is skipped; after the last model the call returns
load_model_loop ==
    /\ chat.pc = "loop"
    /\ chat' = IF chat.i > Len(MODELS)
               THEN [chat EXCEPT !.pc = "idle"]
               ELSE LET model_name  == MODELS[chat.i]
                        file_exists == model_name \in chat.files
                    IN IF skips(model_name, file_exists)
                       THEN [chat EXCEPT !.model_name = model_name, !.i = @ + 1]
                       ELSE [chat EXCEPT !.model_name = model_name, !.pc = "gpu"]
    /\ clinic_idle

\* GPT4All(model_name, ..., device=device) returns a model or raises
GPT4All(c, device, loaded) ==
    LET tried == [c EXCEPT !.attempts =
                      Append(@, [model |-> c.model_name, device |-> device,
                                 loaded |-> loaded])]
    IN IF loaded
       THEN [tried EXCEPT !.model = [name |-> c.model_name, device |-> device],
                          !.pc = "idle"]
       ELSE tried

\* "1. Try GPU": success breaks out of the loop, failure goes on to the CPU
load_model_gpu ==
    /\ chat.pc = "gpu"
    /\ \E loaded \in BOOLEAN :
          chat' = IF loaded THEN GPT4All(chat, "gpu", TRUE)
                  ELSE [GPT4All(chat, "gpu", FALSE) EXCEPT !.pc = "cpu"]
    /\ clinic_idle

\* "2. Try CPU Fallback": success breaks out of the loop, failure goes on to
\* the next model
load_model_cpu ==
    /\ chat.pc = "cpu"
    /\ \E loaded \in BOOLEAN :
          chat' = IF loaded THEN GPT4All(chat, "cpu", TRUE)
                  ELSE [GPT4All(chat, "cpu", FALSE) EXCEPT !.pc = "loop", !.i = @ + 1]
    /\ clinic_idle

\* messages put to get_response; "" stands for every message that is not true
\* (the empty string, None)
Messages == {"", "  ", "Check stock Arnica?", "check stock for", "inventory sales",
             "Revenue", "How many patients", "patient list", "hello"}

\* user_message.lower().strip()
msg_lower(user_message) ==
    CASE user_message = "  "                  -> ""
      [] user_message = "Check stock Arnica?" -> "check stock arnica?"
      [] user_message = "Revenue"             -> "revenue"
      [] user_message = "How many patients"   -> "how many patients"
      [] OTHER                                -> user_message

\* re.search(r"(?:do we have|check stock|inventory)\s+(.+)", msg_lower) finds
\* a match
stock_match(lowered) ==
    lowered \in {"check stock arnica?", "check stock for", "inventory sales"}

\* stock_match.group(1).replace("?", "").replace("for", "").strip()
medicine_name(lowered) ==
    CASE lowered = "check stock arnica?" -> "arnica"
      [] lowered = "check stock for"     -> ""
      [] lowered = "inventory sales"     -> "sales"

\* "revenue" in msg_lower or "sales" in msg_lower
asks_revenue(lowered) == lowered \in {"inventory sales", "revenue"}

\* "patient" in msg_lower and ("count" in msg_lower or "how many" in msg_lower)
asks_patient_count(lowered) == lowered = "how many patients"

\* what a method returns, or the exception it raises
Returned(text) == [text |-> text, raised |-> ""]
Raising(exception) == [text |-> "", raised |-> exception]

\* sqlite3.connect(self.db_path): the exception it raises, "" when it returns
\* a connection
get_db_connection(database) ==
    IF database.file = "unopenable" THEN "sqlite3.OperationalError" ELSE ""

\* cursor.execute of a SELECT on the table: the exception it raises, "" when
\* the query runs.  "file is not a database" is a DatabaseError; "no such
\* table" and "database is locked" are OperationalErrors.
execute(database, table) ==
    IF database.file = "not_a_database" THEN "sqlite3.DatabaseError"
    ELSE IF database.file = "locked" \/ table \notin database.tables
    THEN "sqlite3.OperationalError"
    ELSE ""

\* the rows WHERE name LIKE '%medicine_name%' and the text made of them; None
\* (here "") when there is no row.  Nothing catches what connect or execute
\* raise.
get_inventory_status(database, name) ==
    LET like(row) == name = "" \/ <<row.name, name>> \in {<<"Arnica", "arnica">>}
        results   == SelectSeq(database.medicines, like)
        RECURSIVE lines(_)
        lines(rows) ==
            IF rows = <<>> THEN ""
            ELSE "- " \o Head(rows).name \o " (" \o Head(rows).type \o "): "
                     \o ToString(Head(rows).stock) \o " units\n" \o lines(Tail(rows))
    IN IF get_db_connection(database) # "" THEN Raising(get_db_connection(database))
       ELSE IF execute(database, "medicines") # ""
       THEN Raising(execute(database, "medicines"))
       ELSE IF results = <<>> THEN Returned("")
       ELSE Returned("Here is what I found in inventory:\n" \o lines(results))

\* SUM(amount) of sales, 0 when there is none, printed with two decimals.  The
\* connection is opened before the try, and the except clause catches
\* sqlite3.OperationalError only.
get_total_revenue(database) ==
    LET RECURSIVE sum(_)
        sum(amounts) == IF amounts = <<>> THEN 0 ELSE Head(amounts) + sum(Tail(amounts))
        total == sum(database.sales)
    IN IF get_db_connection(database) # "" THEN Raising(get_db_connection(database))
       ELSE IF execute(database, "sales") = "sqlite3.OperationalError"
       THEN Returned("Revenue data unavailable.")
       ELSE IF execute(database, "sales") # "" THEN Raising(execute(database, "sales"))
       ELSE Returned("Total Revenue: $" \o ToString(total) \o ".00")

\* COUNT(*) of patients.  Nothing catches what connect or execute raise.
get_patient_count(database) ==
    IF get_db_connection(database) # "" THEN Raising(get_db_connection(database))
    ELSE IF execute(database, "patients") # ""
    THEN Raising(execute(database, "patients"))
    ELSE Returned("Total Patients: " \o ToString(database.patients))

\* The outcomes of get_response(user_message) on the service c: what it
\* returns or the exception that leaves it.  The fast path is decided by the
\* message and the database; on the slow path the outcome of the model's
\* generate(), a text or an Exception, is the environment's.
get_response_replies(c, user_message) ==
    LET Reply(outcome, called_model) ==
            [message |-> user_message, text |-> outcome.text, raised |-> outcome.raised,
             called_model |-> called_model]
        lowered == msg_lower(user_message)
        result  == get_inventory_status(c.database, medicine_name(lowered))
    IN IF user_message = "" THEN {Reply(Returned(""), FALSE)}
       ELSE IF stock_match(lowered)
       THEN {IF result.raised = "" /\ result.text = ""
             THEN Reply(Returned("I couldn't find '" \o medicine_name(lowered)
                                     \o "' in the inventory."), FALSE)
             ELSE Reply(result, FALSE)}
       ELSE IF asks_revenue(lowered)
       THEN {Reply(get_total_revenue(c.database), FALSE)}
       ELSE IF asks_patient_count(lowered)
       THEN {Reply(get_patient_count(c.database), FALSE)}
       ELSE IF c.model # NoModel
       THEN {Reply(Returned("generated"), TRUE),
             Reply(Returned("I'm having trouble thinking. Please try again."), TRUE)}
       ELSE {Reply(Returned("The AI model is unavailable. I can only answer questions about Inventory, Revenue, and Patient Counts."), FALSE)}

\* get_response is called and returns or raises.  It can be called at any
\* time, also while a call of load_model is in progress: it reads _model once
\* (line 140) and goes by what it finds.
get_response(user_message) ==
    /\ chat.questions < MaxQuestions
    /\ \E reply \in get_response_replies(chat, user_message) :
          chat' = [chat EXCEPT !.questions = @ + 1, !.reply = reply]
    /\ clinic_idle

----------------------------------------------------------------------------
(* The arithmetic of the bills: Python floats (IEEE 754 binary64) *)

\* line items on one bill
MaxBillItems == 2

\* bits of a float's significand
MantissaBits == 53

\* A natural number is the sequence of its digits in base Base, least
\* significant first, with no leading zero; a float is sign * m * 2^e with m
\* of MantissaBits bits, or zero (m empty).
DigitBits == 10

Base == 2 ^ DigitBits

RECURSIVE DigitsOf(_)
DigitsOf(n) == IF n = 0 THEN <<>> ELSE <<n % Base>> \o DigitsOf(n \div Base)

RECURSIVE Trim(_)
Trim(a) ==
    IF a = <<>> THEN <<>>
    ELSE IF a[Len(a)] = 0 THEN Trim(SubSeq(a, 1, Len(a) - 1))
    ELSE a

Rest(a) == IF a = <<>> THEN <<>> ELSE Tail(a)

Low(a) == IF a = <<>> THEN 0 ELSE Head(a)

RECURSIVE AddDigits(_, _, _)
AddDigits(a, b, carry) ==
    IF a = <<>> /\ b = <<>> THEN DigitsOf(carry)
    ELSE LET t == Low(a) + Low(b) + carry
         IN <<t % Base>> \o AddDigits(Rest(a), Rest(b), t \div Base)

\* a - b for a >= b
RECURSIVE SubDigits(_, _, _)
SubDigits(a, b, borrow) ==
    IF a = <<>> THEN <<>>
    ELSE LET t == Head(a) - Low(b) - borrow
         IN <<t % Base>> \o SubDigits(Tail(a), Rest(b), IF t < 0 THEN 1 ELSE 0)

\* a < b, for a and b without leading zeros or of one length
RECURSIVE LessDigits(_, _)
LessDigits(a, b) ==
    IF Len(a) # Len(b) THEN Len(a) < Len(b)
    ELSE IF a = <<>> THEN FALSE
    ELSE IF a[Len(a)] # b[Len(b)] THEN a[Len(a)] < b[Len(b)]
    ELSE LessDigits(SubSeq(a, 1, Len(a) - 1), SubSeq(b, 1, Len(b) - 1))

\* a * q for a small natural q
RECURSIVE MulSmall(_, _, _)
MulSmall(a, q, carry) ==
    IF a = <<>> THEN DigitsOf(carry)
    ELSE LET t == Head(a) * q + carry
         IN <<t % Base>> \o MulSmall(Tail(a), q, t \div Base)

\* the quotient of the digits 1..i of a, preceded by a remainder r, by a small
\* natural d, and the remainder of that division
RECURSIVE DivSmall(_, _, _, _)
DivSmall(a, i, r, d) ==
    IF i = 0 THEN <<>>
    ELSE DivSmall(a, i - 1, (r * Base + a[i]) % d, d) \o <<(r * Base + a[i]) \div d>>

RECURSIVE ModSmall(_, _, _, _)
ModSmall(a, i, r, d) ==
    IF i = 0 THEN r ELSE ModSmall(a, i - 1, (r * Base + a[i]) % d, d)

\* a * 2^k and the whole part of a / 2^k
ShiftLeft(a, k) ==
    IF a = <<>> THEN <<>>
    ELSE [i \in 1..(k \div DigitBits) |-> 0] \o MulSmall(a, 2 ^ (k % DigitBits), 0)

ShiftRight(a, k) ==
    IF Len(a) <= k \div DigitBits THEN <<>>
    ELSE LET high == SubSeq(a, k \div DigitBits + 1, Len(a))
         IN Trim(DivSmall(high, Len(high), 0, 2 ^ (k % DigitBits)))

\* the bit of weight 2^i of a
Bit(a, i) ==
    IF i \div DigitBits + 1 > Len(a) THEN 0
    ELSE (a[i \div DigitBits + 1] \div (2 ^ (i % DigitBits))) % 2

\* the number of bits of a
BitLen(a) ==
    IF a = <<>> THEN 0
    ELSE (Len(a) - 1) * DigitBits
             + (CHOOSE n \in 1..DigitBits :
                    a[Len(a)] \div (2 ^ (n - 1)) # 0 /\ a[Len(a)] \div (2 ^ n) = 0)

\* 0.0 and -0.0, which compare equal
Zero == [sign |-> 1, m |-> <<>>, e |-> 0]

\* the float nearest to sign * n * 2^e (plus a fraction of 2^e when inexact),
\* ties to the even significand
Round(sign, n, e, inexact) ==
    IF n = <<>> THEN Zero
    ELSE IF BitLen(n) <= MantissaBits
    THEN [sign |-> sign, m |-> ShiftLeft(n, MantissaBits - BitLen(n)),
          e |-> e - (MantissaBits - BitLen(n))]
    ELSE LET k     == BitLen(n) - MantissaBits
             kept  == ShiftRight(n, k)
             below == inexact \/ \E i \in 0..(k - 2) : Bit(n, i) = 1
             up    == Bit(n, k - 1) = 1 /\ (below \/ Bit(kept, 0) = 1)
             m     == IF up THEN AddDigits(kept, <<1>>, 0) ELSE kept
         IN IF BitLen(m) > MantissaBits
            THEN [sign |-> sign, m |-> ShiftRight(m, 1), e |-> e + k + 1]
            ELSE [sign |-> sign, m |-> m, e |-> e + k]

Abs(n) == IF n < 0 THEN -n ELSE n

Sign(n) == IF n < 0 THEN -1 ELSE 1

\* the float of a decimal number of hundredths, as a JSON number is parsed and
\* as float() gives it back: the float nearest to cents / 100
float_of_decimal(cents) ==
    LET scaled == ShiftLeft(DigitsOf(Abs(cents)), 62)
    IN Round(Sign(cents), Trim(DivSmall(scaled, Len(scaled), 0, 100)), -62,
             ModSmall(scaled, Len(scaled), 0, 100) # 0)

\* price * qty, the int qty converted exactly
float_times_int(a, qty) ==
    IF a = Zero \/ qty = 0 THEN Zero
    ELSE Round(a.sign * Sign(qty), MulSmall(a.m, Abs(qty), 0), a.e, FALSE)

\* a + b
float_add(a, b) ==
    IF a = Zero THEN b
    ELSE IF b = Zero THEN a
    ELSE LET e  == IF a.e < b.e THEN a.e ELSE b.e
             am == ShiftLeft(a.m, a.e - e)
             bm == ShiftLeft(b.m, b.e - e)
         IN IF a.sign = b.sign THEN Round(a.sign, AddDigits(am, bm, 0), e, FALSE)
            ELSE IF am = bm THEN Zero
            ELSE IF LessDigits(am, bm) THEN Round(b.sign, Trim(SubDigits(bm, am, 0)), e, FALSE)
            ELSE Round(a.sign, Trim(SubDigits(am, bm, 0)), e, FALSE)

\* a - b
float_sub(a, b) == IF b = Zero THEN a ELSE float_add(a, [b EXCEPT !.sign = -@])

\* the loop of create_visit over the line items: line_total = price * qty and
\* med_cost += line_total, from med_cost = 0.0
RECURSIVE create_visit_med_cost(_, _)
create_visit_med_cost(med_cost, items) ==
    IF items = <<>> THEN med_cost
    ELSE LET price      == float_of_decimal(Head(items).price)
             line_total == float_times_int(price, Head(items).qty)
         IN create_visit_med_cost(float_add(med_cost, line_total), Tail(items))

\* the figures create_visit stores for line items at prices in hundredths, a
\* fee and an amount paid in hundredths
create_visit_figures(items, fee, paid) ==
    LET line_totals      == [i \in 1..Len(items) |->
                                float_times_int(float_of_decimal(items[i].price),
                                                items[i].qty)]
        med_cost         == create_visit_med_cost(Zero, items)
        consultation_fee == float_of_decimal(fee)
        amount_paid      == float_of_decimal(paid)
        total_bill       == float_add(consultation_fee, med_cost)
        due_amount       == float_sub(total_bill, amount_paid)
    IN [line_totals |-> line_totals, medicine_bill |-> med_cost,
        total_bill |-> total_bill, due_amount |-> due_amount]

\* the figures update_payment stores for a fee, a medicine bill and an amount
\* paid in hundredths
update_payment_figures(fee, med, paid) ==
    LET consult  == float_of_decimal(fee)
        med_bill == float_of_decimal(med)
        total    == float_add(consult, med_bill)
        due      == float_sub(total, float_of_decimal(paid))
    IN [total_bill |-> total, due_amount |-> due]

\* no bill is being computed
NoBill == [pc |-> "none"]

\* prices and amounts in hundredths, quantities
PriceCents == {10, 20, 125}
Quantities == {1, 3}
FeeCents == {0, 10}
PaidCents == {0, 30}

BillItems == {[price |-> p, qty |-> q] : p \in PriceCents, q \in Quantities}

\* create_visit bills the line items
create_visit_bill ==
    /\ bill.pc = "asked"
    /\ bill' = [bill EXCEPT !.pc = "created",
                            !.stored = create_visit_figures(bill.items, bill.fee, bill.paid)]
    /\ UNCHANGED <<db, lock, pc, tx, resp, conc, budget, chat>>

\* update_payment is given the fee, the exact medicine bill and the amount paid
update_payment_bill ==
    /\ bill.pc = "asked"
    /\ bill' = [bill EXCEPT !.pc = "updated",
                            !.stored = update_payment_figures(bill.fee, bill.med, bill.paid)]
    /\ UNCHANGED <<db, lock, pc, tx, resp, conc, budget, chat>>

----------------------------------------------------------------------------
(* Requests *)

Optional(key, values) == {Empty} \cup {(key :> v) : v \in values}

Item(remedy_id, quantity) == [remedy_id |-> remedy_id, quantity |-> quantity]

\* line items listed up to MaxItems at a time: remedy 1 exists, remedy 3 does
\* not, and a malformed item has no remedy_id
Items == {Item(1, 3), Item(1, 4), Item(3, 3), [quantity |-> 3]}

\* further lists: a negative quantity, a second remedy, a quantity left out
MedicineLists ==
    SeqsUpTo(Items, MaxItems)
        \cup {<<Item(1, -1)>>, <<Item(2, 3)>>, <<[remedy_id |-> 1]>>,
              <<Item(1, 3), Item(2, 3)>>, <<Item(1, -1), Item(1, 4)>>}

\* visit payloads that exercise the line items
StockVisits ==
    {[patient_id |-> 1, consultation_fee |-> 5, medicines |-> m] : m \in MedicineLists}
        \cup {[patient_id |-> 1, patient_name |-> "bob", medicines |-> m] :
                 m \in {<<Item(1, 3)>>, <<Item(1, 3), Item(1, 4)>>}}

\* visit payloads that exercise the billing figures
BillingVisits ==
    {[patient_id |-> 1] @@ m @@ f @@ p :
        m \in Optional("medicines", {<<Item(1, 3)>>}),
        f \in Optional("consultation_fee", Fees),
        p \in Optional("amount_paid", Paids)}

\* visit payloads that carry a status of the client's
StatusVisits ==
    {[patient_id |-> 1, consultation_fee |-> 5, status |-> s] @@ p :
        s \in {"paid", "n/a"}, p \in Optional("amount_paid", {2})}

\* visit payloads naming a patient that does not exist
StrayVisits ==
    {[patient_id |-> 2, medicines |-> <<Item(1, 3)>>] @@ n :
        n \in Optional("patient_name", {"bob"})}

\* visit payloads that carry a date of the client's
DatedVisits == {[patient_id |-> 1, visit_date |-> -1]}

\* visit payloads that carry patient details: an age that is no number, alone
\* and after a name, an age that is one, and an empty phone
DetailVisits ==
    {[patient_id |-> 1, patient_age |-> "x"],
     [patient_id |-> 1, patient_name |-> "bob", patient_age |-> "x"],
     [patient_id |-> 1, patient_name |-> "bob", patient_age |-> "40"],
     [patient_id |-> 1, patient_phone |-> ""]}

Visits ==
    StockVisits \cup BillingVisits \cup StatusVisits \cup StrayVisits \cup DatedVisits
        \cup DetailVisits

\* update_visit payloads; the patient may be left out
Amendments ==
    StockVisits \cup StatusVisits \cup StrayVisits \cup DetailVisits
        \cup {[patient_id |-> 1, consultation_fee |-> 5] @@ p : p \in Optional("amount_paid", Paids)}
        \cup {[medicines |-> <<Item(1, 4)>>], [medicines |-> <<Item(2, 4)>>], Empty,
              [visit_date |-> -1], [patient_phone |-> "555"]}

\* update_visit requests: (visit_id, payload, role of the caller); visit 1
\* exists in every seeded store, visit 2 in none
AmendRequests ==
    {<<1, visit, "admin">> : visit \in Amendments}
        \cup {<<2, visit, "admin">> : visit \in {Empty, [medicines |-> <<Item(1, 4)>>]}}
        \cup {<<1, [patient_id |-> 1], role>> : role \in Roles \ {"admin"}}

\* update_payment payloads: every choice of the three figures, given or
\* omitted; a status from the client; a negative total; and a total of 0
\* with nothing, 2 or the stored amount paid
Payments ==
    {f @@ m @@ p :
        f \in Optional("consultation_fee", Fees),
        m \in Optional("medicine_bill", MedBills),
        p \in Optional("amount_paid", Paids)}
      \cup {[status |-> s] @@ p : s \in {"paid", "pending"}, p \in Optional("amount_paid", {2})}
      \cup {[consultation_fee |-> -1, medicine_bill |-> 0]}
      \cup {[consultation_fee |-> 0, medicine_bill |-> 0] @@ p :
                p \in Optional("amount_paid", {0, 2})}

\* update_payment requests: (visit_id, payload, role of the caller)
PaymentRequests ==
    {<<1, payment, "admin">> : payment \in Payments}
        \cup {<<2, [amount_paid |-> 5], "admin">>}
        \cup {<<1, [amount_paid |-> 5], role>> : role \in Roles \ {"admin"}}

\* RemedyRequest bodies
Remedies == {[current_unit_price |-> p, stock_quantity |-> q] : p \in Prices, q \in Stocks}

\* add_expense payloads; the second has no amount
Expenses == {[category |-> "Rent", amount |-> 9], [category |-> "Rent"]}

\* PatientRequest bodies
Patients == {[name |-> "cyd"]}

\* update_patient requests: (patient_id, payload); patient 2 is not registered
\* in the seeded stores, and the last payload names nothing
PatientRequests == {<<1, [name |-> "dee"]>>, <<2, [name |-> "dee"]>>, <<1, Empty>>}

----------------------------------------------------------------------------
(* Behaviours *)

\* visits recorded before the behaviour starts; the last takes the whole stock
\* of remedy 2
SeedVisits ==
    {[patient_id |-> 1, consultation_fee |-> 5, amount_paid |-> 2,
      medicines |-> <<Item(1, 3)>>],
     [patient_id |-> 1, consultation_fee |-> 5,
      medicines |-> <<Item(1, 3), Item(2, 3)>>],
     [patient_id |-> 1, medicines |-> <<Item(2, 4)>>]}

\* the store once create_patient has registered a patient and create_remedy
\* two remedies: 5 units at 2 and 4 units at 3
StockedDb ==
    LET amy == create_patient_body(Conn(SchemaDb, 0), [name |-> "amy"]).db
        one == create_remedy_body(Conn(amy, 0), RemedyRow(2, 5), 1).db
    IN create_remedy_body(Conn(one, 0), RemedyRow(3, 4), 2).db

\* the stores a behaviour starts from: the two stores init_database leaves,
\* the store with a patient and two remedies registered, and that store after
\* create_visit recorded one of the seed visits
Stores ==
    {InitialDb, SchemaDb, StockedDb}
        \cup {create_visit_body(Conn(StockedDb, 0), visit).db : visit \in SeedVisits}

\* the request handlers at rest on one of the stores
Clinic(stores, calls) ==
    /\ db \in stores
    /\ lock = 0
    /\ pc = [w \in Workers |-> "idle"]
    /\ tx = [w \in Workers |-> NoTx]
    /\ resp = [w \in Workers |-> NoResponse]
    /\ conc = [w \in Workers |-> FALSE]
    /\ budget = calls

Start(stores, calls) ==
    /\ Clinic(stores, calls)
    /\ chat = ChatService({}, chamber_db)
    /\ bill = NoBill

Init == Start(Stores, MaxCalls)

Serve(w) ==
    \/ \E visit \in Visits : create_visit_begin(w, visit)
    \/ create_visit_validate(w)
    \/ create_visit_clock(w)
    \/ create_visit_txn(w)
    \/ create_visit_end(w)
    \/ \E r \in AmendRequests : update_visit_begin(w, r[1], r[2], r[3])
    \/ update_visit_validate(w)
    \/ update_visit_patient_exists(w)
    \/ update_visit_old_medicines(w)
    \/ update_visit_txn(w)
    \/ update_visit_end(w)
    \/ \E r \in PaymentRequests : update_payment_begin(w, r[1], r[2], r[3])
    \/ update_payment_validate(w)
    \/ update_payment_txn(w)
    \/ update_payment_end(w)
    \/ \E remedy \in Remedies, role \in {"doctor", "staff"} :
          create_remedy_begin(w, remedy, role)
    \/ create_remedy_validate(w)
    \/ create_remedy_txn(w)
    \/ create_remedy_end(w)
    \/ \E remedy_id \in {1, 3}, remedy \in Remedies, role \in {"doctor", "staff"} :
          update_remedy_begin(w, remedy_id, remedy, role)
    \/ update_remedy_validate(w)
    \/ update_remedy_txn(w)
    \/ update_remedy_end(w)
    \/ \E remedy_id \in {1, 3}, role \in {"doctor", "staff"} :
          delete_remedy_begin(w, remedy_id, role)
    \/ delete_remedy_validate(w)
    \/ delete_remedy_txn(w)
    \/ delete_remedy_end(w)
    \/ \E patient \in Patients : create_patient_begin(w, patient)
    \/ create_patient_txn(w)
    \/ create_patient_end(w)
    \/ \E r \in PatientRequests : update_patient_begin(w, r[1], r[2])
    \/ update_patient_validate(w)
    \/ update_patient_txn(w)
    \/ update_patient_end(w)
    \/ \E expense \in Expenses, role \in {"admin", "doctor"} :
          add_expense_begin(w, expense, role)
    \/ add_expense_validate(w)
    \/ add_expense_txn(w)
    \/ add_expense_end(w)

\* one request at a time
Next == Serve(1)

Spec == Init /\ [][Next]_vars

\* Concurrent requests: FastAPI runs these handlers on a pool of worker threads.
\* The store holds a second patient and one visit of the first, which took 3
\* of remedy 2; remedy 1 has its 5.
ConcStore ==
    create_visit_body(Conn(create_patient_body(Conn(StockedDb, 0), [name |-> "bob"]).db, 0),
                      [patient_id |-> 1, consultation_fee |-> 5,
                       medicines |-> <<Item(2, 3)>>]).db

ConcVisits == {[patient_id |-> 1, medicines |-> <<Item(1, q)>>] : q \in {3, 4}}

\* the last amendment moves the visit to the second patient
ConcAmendments ==
    {[medicines |-> <<Item(2, 3)>>], [consultation_fee |-> 5], [patient_id |-> 2]}

ConcPayments == {[amount_paid |-> 5], [consultation_fee |-> 0]}

\* the remedy requests of the concurrent behaviours: a doctor's, and one of the
\* front desk, which the role gate refuses
ConcRemedy == RemedyRow(3, 0)

InitConc == Start({ConcStore}, MaxConcCalls)

ServeConc(w) ==
    \/ \E visit \in ConcVisits : create_visit_begin(w, visit)
    \/ create_visit_validate(w)
    \/ create_visit_clock(w)
    \/ create_visit_txn(w)
    \/ create_visit_busy(w)
    \/ create_visit_end(w)
    \/ \E visit \in ConcAmendments : update_visit_begin(w, 1, visit, "admin")
    \/ update_visit_validate(w)
    \/ update_visit_patient_exists(w)
    \/ update_visit_old_medicines(w)
    \/ update_visit_txn(w)
    \/ update_visit_busy(w)
    \/ update_visit_end(w)
    \/ \E payment \in ConcPayments : update_payment_begin(w, 1, payment, "admin")
    \/ update_payment_validate(w)
    \/ update_payment_txn(w)
    \/ update_payment_busy(w)
    \/ update_payment_end(w)
    \/ \E role \in {"doctor", "staff"} : create_remedy_begin(w, ConcRemedy, role)
    \/ create_remedy_validate(w)
    \/ create_remedy_txn(w)
    \/ create_remedy_busy(w)
    \/ create_remedy_end(w)
    \/ update_remedy_begin(w, 1, ConcRemedy, "doctor")
    \/ update_remedy_validate(w)
    \/ update_remedy_txn(w)
    \/ update_remedy_busy(w)
    \/ update_remedy_end(w)
    \/ delete_remedy_begin(w, 1, "doctor")
    \/ delete_remedy_validate(w)
    \/ delete_remedy_txn(w)
    \/ delete_remedy_busy(w)
    \/ delete_remedy_end(w)
    \/ \E patient \in Patients : create_patient_begin(w, patient)
    \/ create_patient_txn(w)
    \/ create_patient_busy(w)
    \/ create_patient_end(w)
    \/ update_patient_begin(w, 1, [name |-> "dee"])
    \/ update_patient_validate(w)
    \/ update_patient_txn(w)
    \/ update_patient_busy(w)
    \/ update_patient_end(w)
    \/ add_expense_begin(w, [category |-> "Rent", amount |-> 9], "admin")
    \/ add_expense_validate(w)
    \/ add_expense_txn(w)
    \/ add_expense_busy(w)
    \/ add_expense_end(w)

NextConc == \E w \in Workers : ServeConc(w)

SpecConc == InitConc /\ [][NextConc]_vars

\* the chat service in a working directory holding any of the model files, on
\* any of the databases
InitChat ==
    /\ Clinic({InitialDb}, 0)
    /\ chat \in {ChatService(files, database) :
                    files \in SUBSET {MODELS[i] : i \in 1..Len(MODELS)},
                    database \in Databases}
    /\ bill = NoBill

\* a call of load_model that has begun runs on
load_model_running == load_model_loop \/ load_model_gpu \/ load_model_cpu

NextChat ==
    \/ load_model_begin
    \/ load_model_loop
    \/ load_model_gpu
    \/ load_model_cpu
    \/ \E user_message \in Messages : get_response(user_message)

\* the interpreter executes the next statement of a call in progress
SpecChat == InitChat /\ [][NextChat]_vars /\ WF_vars(load_model_running)

\* a bill to compute: up to MaxBillItems line items, a fee and an amount paid
Bills ==
    {[pc |-> "asked", items |-> items, fee |-> fee, paid |-> paid,
      med |-> 0, stored |-> <<>>] :
        items \in SeqsUpTo(BillItems, MaxBillItems), fee \in FeeCents, paid \in PaidCents}

\* the exact sum of the line totals, in hundredths
RECURSIVE ExactMedicineBill(_)
ExactMedicineBill(items) ==
    IF items = <<>> THEN 0
    ELSE Head(items).price * Head(items).qty + ExactMedicineBill(Tail(items))

InitBill ==
    /\ Clinic({InitialDb}, 0)
    /\ chat = ChatService({}, chamber_db)
    /\ bill \in {[b EXCEPT !.med = ExactMedicineBill(b.items)] : b \in Bills}

NextBill == create_visit_bill \/ update_payment_bill

SpecBill == InitBill /\ [][NextBill]_vars

----------------------------------------------------------------------------
(* Properties of create_visit *)

\* the payload without the key
Without(d, k) == [j \in DOMAIN d \ {k} |-> d[j]]

\* the units of a remedy on the line items of a store
RECURSIVE Taken(_, _)
Taken(lines, rid) ==
    IF lines = <<>> THEN 0
    ELSE (IF Head(lines).remedy_id = rid THEN Head(lines).quantity ELSE 0)
             + Taken(Tail(lines), rid)

\* C1: a create_visit call that fails, at whichever step, leaves the committed
\* rows (patients, visits, line items, stock, payments) as they were: no step
\* of the call other than its successful return changes the committed store.
C1_FailedCreateVisitPersistsNothing ==
    [][\A w \in Workers :
          (/\ pc[w] \in {"cv_start", "cv_checked", "cv_dated", "cv_done"}
           /\ pc'[w] # pc[w]
           /\ ~(pc'[w] = "idle" /\ resp'[w].code = 200))
          => db' = db]_vars

\* a create_visit whose store failed after the visit row was inserted
C1_Witness ==
    \E w \in Workers :
        /\ pc[w] = "cv_done"
        /\ tx[w].conn.outcome = "store_error"
        /\ Len(tx[w].conn.db.visits) = Len(db.visits) + 1

\* the two create_visit calls of the scenario have returned, neither with a
\* store error
TwoVisitsServed ==
    /\ budget = MaxConcCalls - 2
    /\ \A w \in Workers :
          /\ pc[w] = "idle"
          /\ resp[w].op = "create_visit"
          /\ resp[w].code # 500

\* the committed store holds one visit more than ConcStore, and remedy 1 has
\* lost what the new line items took
OneVisitRecorded ==
    /\ Len(db.visits) = Len(ConcStore.visits) + 1
    /\ Len(db.payments) = Len(ConcStore.payments) + 1
    /\ Len(db.visit_medicines) = Len(ConcStore.visit_medicines) + 1
    /\ db.remedies[1].stock_quantity =
          ConcStore.remedies[1].stock_quantity - Taken(db.visit_medicines, 1)

\* C2: of two create_visit calls for remedy 1 whose quantities (3 or 4 each)
\* fit its stock of 5 alone but not together, exactly one commits, the other
\* gets "Insufficient stock", and the stock ends at 5 minus the winner's
\* quantity, however the two calls interleave.
C2_ExactlyOneVisitCommits ==
    TwoVisitsServed =>
        /\ \E win, lose \in Workers :
              /\ win # lose
              /\ resp[win].code = 200
              /\ resp[lose] = Response("create_visit", 400, "Insufficient stock for remedy", 1)
        /\ OneVisitRecorded

\* both calls were in flight together, and the second to write was refused
C2_Witness ==
    /\ TwoVisitsServed
    /\ conc[1] /\ conc[2]
    /\ resp[1].code = 400
    /\ resp[2].code = 200
    /\ db.remedies[1].stock_quantity = 1

\* C3 (as claimed): in every committed state every remedy's stock_quantity
\* is >= 0.
C3_StockNeverNegative ==
    \A r \in DOMAIN db.remedies : db.remedies[r].stock_quantity >= 0

\* the line items name one remedy that exists, each quantity fits its stock,
\* and their sum does not
Overdrawn(visit, d) ==
    LET items == Get(visit, "medicines", <<>>)
    IN /\ Len(items) >= 2
       /\ \A i \in 1..Len(items) :
             /\ DOMAIN items[i] = {"remedy_id", "quantity"}
             /\ items[i].remedy_id = items[1].remedy_id
             /\ items[i].remedy_id \in DOMAIN d.remedies
             /\ items[i].quantity > 0
             /\ items[i].quantity <= d.remedies[items[i].remedy_id].stock_quantity
       /\ Taken(items, items[1].remedy_id) > d.remedies[items[1].remedy_id].stock_quantity

\* C4: a create_visit whose line items name one remedy with quantities that
\* each fit the stock but together exceed it (3 and 4 against 5) fails, and
\* the committed stock, visits, line items and payments stay as they were.
C4_OverdrawnVisitFails ==
    [][\A w \in Workers :
          (pc[w] = "cv_done" /\ pc'[w] = "idle" /\ Overdrawn(tx[w].req, db))
          => (resp'[w].code # 200 /\ db' = db)]_vars

\* the first item has passed and taken its stock, the second is refused
C4_Witness ==
    \E w \in Workers :
        /\ pc[w] = "cv_done"
        /\ Overdrawn(tx[w].req, db)
        /\ tx[w].conn.outcome = "insufficient_stock"
        /\ tx[w].conn.db.remedies[1].stock_quantity < db.remedies[1].stock_quantity

\* a line item names a remedy the store does not have
NamesUnknownRemedy(visit, d) ==
    \E i \in 1..Len(Get(visit, "medicines", <<>>)) :
        /\ Has(visit.medicines[i], "remedy_id")
        /\ visit.medicines[i].remedy_id \notin DOMAIN d.remedies

\* C5 (as claimed): a create_visit with a line item that names an unknown
\* remedy fails and persists nothing.
C5_UnknownRemedyAborts ==
    [][\A w \in Workers :
          (pc[w] = "cv_done" /\ pc'[w] = "idle" /\ NamesUnknownRemedy(tx[w].req, db))
          => (resp'[w].code # 200 /\ db' = db)]_vars

\* C6 (as claimed): every validation of create_visit is made before its first
\* write: when a line item is refused for its stock, the connection has
\* issued no write statement.
C6_ValidationBeforeFirstWrite ==
    \A w \in Workers :
        (pc[w] = "cv_done" /\ tx[w].conn.outcome = "insufficient_stock")
        => tx[w].conn.log = <<>>

----------------------------------------------------------------------------
(* Properties of the billing figures *)

\* the ordered first-match rule of the specification
StatusRule(total_bill, due_amount, amount_paid) ==
    CASE total_bill <= 0 -> "n/a"
      [] total_bill > 0 /\ due_amount <= 0 -> "paid"
      [] total_bill > 0 /\ due_amount > 0 /\ amount_paid > 0 -> "partially paid"
      [] OTHER -> "pending"

\* the line totals of a visit in a store
RECURSIVE Billed(_, _)
Billed(lines, visit_id) ==
    IF lines = <<>> THEN 0
    ELSE (IF Head(lines).visit_id = visit_id THEN Head(lines).line_total ELSE 0)
             + Billed(Tail(lines), visit_id)

\* C7: the payment row create_visit commits carries the status the ordered
\* rule gives (total <= 0: n/a; else due <= 0: paid; else paid > 0: partially
\* paid; else pending) for the fee and amount paid of the request and the
\* line totals of the visit, overpaid and zero-total visits included.
C7_CreateVisitStatusRule ==
    [][\A w \in Workers :
          (pc[w] = "cv_done" /\ pc'[w] = "idle" /\ resp'[w].code = 200)
          => LET visit_id == Len(db'.visits)
                 row      == db'.payments[Len(db'.payments)]
                 total    == Get(tx[w].req, "consultation_fee", 0)
                                + Billed(db'.visit_medicines, visit_id)
                 paid     == Get(tx[w].req, "amount_paid", 0)
             IN /\ Len(db'.payments) = Len(db.payments) + 1
                /\ row.visit_id = visit_id
                /\ row.status = StatusRule(total, total - paid, paid)]_vars

\* create_visit has recorded a visit that bills nothing and was paid 2
C7_Witness ==
    /\ pc[1] = "idle"
    /\ resp[1] = Response("create_visit", 200, "Visit created successfully", 0)
    /\ LET row == db.payments[Len(db.payments)]
       IN /\ row.total_bill = 0
          /\ row.amount_paid = 2
          /\ row.status = "n/a"

NonNegative(row) ==
    /\ row.consultation_fee >= 0
    /\ row.medicine_bill >= 0
    /\ row.amount_paid >= 0

\* C8: for a non-negative fee, medicine bill and amount paid, the status
\* update_payment commits is the status the rule of create_visit gives for
\* the same figures.
C8_UpdatePaymentSameRule ==
    [][\A w \in Workers :
          (pc[w] = "up_done" /\ pc'[w] = "idle" /\ resp'[w].code = 200)
          => \A i \in 1..Len(db'.payments) :
                LET row == db'.payments[i]
                IN (row.visit_id = tx[w].visit_id /\ NonNegative(row))
                   => row.status = create_visit_status(row.total_bill, row.due_amount,
                                                       row.amount_paid)]_vars

\* update_payment is about to commit a bill of nothing on which 2 was paid:
\* "paid" by the first line of its rule, "n/a" by the second
C8_Witness ==
    \E w \in Workers :
        /\ pc[w] = "up_done"
        /\ tx[w].conn.outcome = "ok"
        /\ \E i \in 1..Len(tx[w].conn.db.payments) :
              LET row == tx[w].conn.db.payments[i]
              IN /\ row.visit_id = tx[w].visit_id
                 /\ NonNegative(row)
                 /\ row.total_bill = 0
                 /\ row.amount_paid = 2
                 /\ row.due_amount = -2
                 /\ row.status = "n/a"
                 /\ row.status = create_visit_status(0, -2, 2)

\* C9: a status in the payload has no influence on what is stored: the rows
\* a create_visit, update_visit or update_payment call holds when its try
\* block ends are the rows the same call would hold, from the same committed
\* store, had its payload carried no status.
C9_ClientStatusIgnored ==
    \A w \in Workers :
        LET t     == tx[w]
            plain == [t EXCEPT !.req = Without(@, "status")]
            c0    == Conn(db, t.conn.fault)
        IN /\ pc[w] = "cv_done" => t.conn.db = create_visit_body(c0, plain.req).db
           /\ pc[w] = "uv_done" => t.conn.db = update_visit_body(c0, plain).db
           /\ pc[w] = "up_done" =>
                 t.conn.db = update_payment_body(
                                 c0, t.visit_id,
                                 update_payment_row(plain.req, t.current)).db

\* update_payment is about to commit a row whose status is not the one the
\* client sent
C9_Witness ==
    \E w \in Workers :
        /\ pc[w] = "up_done"
        /\ tx[w].conn.outcome = "ok"
        /\ Has(tx[w].req, "status")
        /\ \E i \in 1..Len(tx[w].conn.db.payments) :
              /\ tx[w].conn.db.payments[i].visit_id = tx[w].visit_id
              /\ tx[w].conn.db.payments[i].status # tx[w].req.status

\* C10: every committed payment row has total_bill = consultation_fee +
\* medicine_bill and due_amount = total_bill - amount_paid, whichever handler
\* wrote it last.
C10_PaymentArithmetic ==
    \A i \in 1..Len(db.payments) :
        LET row == db.payments[i]
        IN /\ row.total_bill = row.consultation_fee + row.medicine_bill
           /\ row.due_amount = row.total_bill - row.amount_paid

\* update_payment has replaced the fee of a recorded visit whose medicine
\* bill it kept
C10_Witness ==
    /\ pc[1] = "idle"
    /\ resp[1] = Response("update_payment", 200, "Payment updated", 0)
    /\ \E i \in 1..Len(db.payments) :
          /\ db.payments[i].consultation_fee = 0
          /\ db.payments[i].medicine_bill = 15
          /\ db.payments[i].total_bill = 15

----------------------------------------------------------------------------
(* Properties of the visit's rows *)

\* C11 (as claimed): in every committed state, whichever of create_visit,
\* update_visit and update_payment wrote last, each payment's medicine_bill is
\* the sum of the line totals of the line items recorded for its visit.
C11_MedicineBillIsLineTotals ==
    \A i \in 1..Len(db.payments) :
        db.payments[i].medicine_bill =
            Billed(db.visit_medicines, db.payments[i].visit_id)

\* C12: in every committed state every visit has exactly one payment row, and
\* every payment row belongs to a visit.
C12_OnePaymentPerVisit ==
    /\ \A v \in 1..Len(db.visits) :
          Cardinality({i \in 1..Len(db.payments) : db.payments[i].visit_id = v}) = 1
    /\ \A i \in 1..Len(db.payments) : db.payments[i].visit_id \in 1..Len(db.visits)

\* update_visit has rewritten the payment of a recorded visit
C12_Witness ==
    /\ pc[1] = "idle"
    /\ resp[1] = Response("update_visit", 200, "Visit updated successfully", 0)
    /\ \E i \in 1..Len(db.payments) :
          db.payments[i].visit_id = 1 /\ db.payments[i].patient_id = 1

\* the quantity a request asks of a remedy, over all its line items
RECURSIVE Requested(_, _)
Requested(items, rid) ==
    IF items = <<>> THEN 0
    ELSE (IF Get(Head(items), "remedy_id", 0) = rid
          THEN Get(Head(items), "quantity", 1) ELSE 0)
             + Requested(Tail(items), rid)

\* the line items of a visit are the requested ones, in order
LinesAsRequested(d, visit_id, items) ==
    LET lines == SelectSeq(d.visit_medicines, LAMBDA row : row.visit_id = visit_id)
    IN /\ Len(lines) = Len(items)
       /\ \A i \in 1..Len(items) :
             /\ lines[i].remedy_id = Get(items[i], "remedy_id", 0)
             /\ lines[i].quantity = Get(items[i], "quantity", 1)

\* C13 (as claimed): a successful create_visit records one line item per
\* requested item with the requested quantity, and lowers each remedy's stock
\* by exactly what the request asks of it, leaving the other remedies alone.
C13_CreateVisitExactLines ==
    [][\A w \in Workers :
          (pc[w] = "cv_done" /\ pc'[w] = "idle" /\ resp'[w].code = 200)
          => LET items == Get(tx[w].req, "medicines", <<>>)
             IN /\ LinesAsRequested(db', Len(db'.visits), items)
                /\ \A r \in DOMAIN db.remedies :
                      db'.remedies[r].stock_quantity =
                          db.remedies[r].stock_quantity - Requested(items, r)]_vars

\* C14: update_remedy changing a price leaves the recorded line items (their
\* unit_price_snapshot and line_total) and payment rows as they were, and
\* list_visits returns what it returned before.
C14_PriceChangeKeepsSnapshots ==
    [][\A w \in Workers :
          (pc[w] \in {"ur_start", "ur_checked", "ur_done"} /\ pc'[w] # pc[w])
          => /\ db'.visit_medicines = db.visit_medicines
             /\ db'.payments = db.payments
             /\ list_visits(db') = list_visits(db)]_vars

\* update_remedy has given a remedy a price other than the one a recorded
\* line item was sold at
C14_Witness ==
    /\ pc[1] = "idle"
    /\ resp[1] = Response("update_remedy", 200, "Remedy updated", 0)
    /\ \E i \in 1..Len(db.visit_medicines) :
          LET line == db.visit_medicines[i]
          IN /\ line.remedy_id \in DOMAIN db.remedies
             /\ line.unit_price_snapshot # db.remedies[line.remedy_id].current_unit_price
             /\ line.line_total = line.unit_price_snapshot * line.quantity
    /\ <<>> \notin list_visits(db)

\* C15 (as claimed): the stock of an existing remedy changes only in the
\* commit of a create_visit or an update_visit.
C15_StockOnlyThroughVisits ==
    [][(\E r \in DOMAIN db.remedies \cap DOMAIN db'.remedies :
           db'.remedies[r].stock_quantity # db.remedies[r].stock_quantity)
       => \E w \in Workers : pc[w] \in {"cv_done", "uv_done"} /\ pc'[w] = "idle"]_vars

\* C16: in a store that has its patients table, create_visit naming a patient
\* that does not exist answers 400 "Patient not found" and ends there, with no
\* committed row changed.
C16_UnknownPatientRejected ==
    [][\A w \in Workers :
          (/\ pc[w] = "cv_start"
           /\ has_table(db, "patients")
           /\ Get(tx[w].req, "patient_id", 0) \notin DOMAIN db.patients
           /\ pc'[w] # pc[w])
          => /\ pc'[w] = "idle"
             /\ resp'[w] = Response("create_visit", 400, "Patient not found", 0)
             /\ db' = db]_vars

\* a create_visit for patient 2, who does not exist, is about to be refused
C16_Witness ==
    \E w \in Workers :
        /\ pc[w] = "cv_start"
        /\ tx[w].req.patient_id = 2
        /\ Has(tx[w].req, "patient_name")
        /\ has_table(db, "patients")
        /\ ~patient_exists(db, 2)

\* C17 (as claimed): every committed line item has a positive quantity and a
\* line total that is not negative.
C17_QuantitiesPositive ==
    \A i \in 1..Len(db.visit_medicines) :
        /\ db.visit_medicines[i].quantity > 0
        /\ db.visit_medicines[i].line_total >= 0

\* C18 (as claimed): after a successful update_visit the visit's line items
\* are the requested ones, and each remedy's stock is its stock before the
\* call plus the visit's old quantities of it minus the new ones.
C18_UpdateVisitExactLines ==
    [][\A w \in Workers :
          (pc[w] = "uv_done" /\ pc'[w] = "idle" /\ resp'[w].code = 200)
          => LET items == Get(tx[w].req, "medicines", <<>>)
                 old   == old_medicines(db, tx[w].visit_id)
             IN /\ LinesAsRequested(db', tx[w].visit_id, items)
                /\ \A r \in DOMAIN db.remedies :
                      db'.remedies[r].stock_quantity =
                          db.remedies[r].stock_quantity + Taken(old, r)
                              - Requested(items, r)]_vars

\* C19 (as claimed): the "Insufficient stock" answer carries the remedy id
\* and the shortfall, the requested quantity minus the stock available.
C19_ErrorCarriesShortfall ==
    \A w \in Workers :
        (pc[w] = "idle" /\ resp[w].detail = "Insufficient stock for remedy")
        => (resp[w].remedy # 0 /\ Has(resp[w], "shortfall"))

\* the remedy of the first item, in submitted order, that asks more than the
\* stock left by the items before it (0: none; -1: an item without remedy_id
\* comes first).  Items naming a remedy the store does not have are passed over.
RECURSIVE FirstShort(_, _)
FirstShort(items, stock) ==
    IF items = <<>> THEN 0
    ELSE LET item == Head(items)
             rid  == Get(item, "remedy_id", 0)
             qty  == Get(item, "quantity", 1)
         IN IF rid = 0 THEN -1
            ELSE IF rid \notin DOMAIN stock THEN FirstShort(Tail(items), stock)
            ELSE IF qty > stock[rid] THEN rid
            ELSE FirstShort(Tail(items), [stock EXCEPT ![rid] = @ - qty])

\* C20: create_visit takes the line items in the order submitted: the
\* "Insufficient stock" answer names the first item that the stock, as reduced
\* by the items before it, cannot cover, and with no store failure the same
\* request on the same store, at the same reading of the clock, always ends
\* the same way.
C20_FirstShortItemReported ==
    \A w \in Workers :
        pc[w] = "cv_done" =>
            LET c     == tx[w].conn
                stock == [r \in DOMAIN db.remedies |-> db.remedies[r].stock_quantity]
                first == FirstShort(Get(tx[w].req, "medicines", <<>>), stock)
            IN /\ c.outcome = "insufficient_stock" => c.remedy = first
               /\ (c.fault = 0 /\ first > 0) =>
                     create_visit_response(c) =
                         Response("create_visit", 400, "Insufficient stock for remedy", first)
               /\ c.fault = 0 =>
                     c = create_visit_body([Conn(db, 0) EXCEPT !.now = c.now], tx[w].req)

\* two items for different remedies, neither of which the stock covers: the
\* first is the one reported
C20_Witness ==
    \E w \in Workers :
        /\ pc[w] = "cv_done"
        /\ LET items == Get(tx[w].req, "medicines", <<>>)
           IN /\ Len(items) = 2
              /\ \A i \in 1..2 : DOMAIN items[i] = {"remedy_id", "quantity"}
              /\ items[1].remedy_id # items[2].remedy_id
              /\ \A i \in 1..2 :
                    /\ items[i].remedy_id \in DOMAIN db.remedies
                    /\ items[i].quantity > db.remedies[items[i].remedy_id].stock_quantity
              /\ tx[w].conn.outcome = "insufficient_stock"
              /\ tx[w].conn.remedy = items[1].remedy_id

\* what the requested items cost at the prices of a store (a quantity left out
\* is 1); an item naming a remedy the store does not have carries no price
RECURSIVE Priced(_, _)
Priced(items, remedies) ==
    IF items = <<>> THEN 0
    ELSE (IF Get(Head(items), "remedy_id", 0) \in DOMAIN remedies
          THEN remedies[Head(items).remedy_id].current_unit_price
                   * Get(Head(items), "quantity", 1)
          ELSE 0)
             + Priced(Tail(items), remedies)

\* C21: in the store a successful create_visit commits, list_visits shows
\* exactly one row for the new visit, and its medicine_bill, total_bill,
\* due_amount and payment status are what the billing rule gives for the fee,
\* the amount paid and the line items of the request at the prices of the
\* store the call ran on.
C21_ListedAsBilled ==
    \A w \in Workers :
        (pc[w] = "cv_done" /\ tx[w].conn.outcome = "ok")
        => LET after == commit(tx[w].conn, db)
               fee   == Get(tx[w].req, "consultation_fee", 0)
               paid  == Get(tx[w].req, "amount_paid", 0)
               med   == Priced(Get(tx[w].req, "medicines", <<>>), db.remedies)
           IN \A listed \in list_visits(after) :
              /\ Cardinality({i \in 1..Len(listed) : listed[i].id = Len(after.visits)}) = 1
              /\ \A r \in {listed[i] : i \in 1..Len(listed)} :
                    r.id = Len(after.visits) =>
                    /\ r.consultation_fee = fee
                    /\ r.medicine_bill = med
                    /\ r.amount_paid = paid
                    /\ r.total_bill = fee + med
                    /\ r.due_amount = fee + med - paid
                    /\ r.payment_status = StatusRule(fee + med, fee + med - paid, paid)

\* a visit with a fee of 5 and one line of 6, of which 7 were paid, is listed
\* with a total of 11, 4 due, partially paid
C21_Witness ==
    \E w \in Workers :
        /\ pc[w] = "cv_done"
        /\ tx[w].conn.outcome = "ok"
        /\ Get(tx[w].req, "amount_paid", 0) = 7
        /\ \E listed \in list_visits(tx[w].conn.db) :
              LET r == listed[1]
              IN
              /\ r.id = Len(db.visits) + 1
              /\ r.medicine_bill = 6
              /\ r.total_bill = 11
              /\ r.due_amount = 4
              /\ r.payment_status = "partially paid"

\* C22: update_visit and update_payment called with a role other than admin
\* answer 403 "Permission denied" in their first step, and that step leaves the
\* store (payments, visits, line items, stock) as it was; no step changes or
\* removes an existing payment row unless it is the commit of an update_visit
\* or update_payment made by an admin.
C22_AdminOnlyPaymentChange ==
    [][/\ \A w \in Workers :
             (/\ pc[w] \in {"uv_start", "up_start"}
              /\ tx[w].role # "admin"
              /\ pc'[w] # pc[w])
             => /\ pc'[w] = "idle"
                /\ resp'[w].code = 403
                /\ resp'[w].detail = "Permission denied"
                /\ db' = db
       /\ (\E i \in 1..Len(db.payments) :
              i > Len(db'.payments) \/ db'.payments[i] # db.payments[i])
          => \E w \in Workers :
                /\ pc[w] \in {"uv_done", "up_done"}
                /\ pc'[w] = "idle"
                /\ tx[w].role = "admin"]_vars

\* a doctor's update_payment for a visit that has a payment row is about to be
\* refused
C22_Witness ==
    \E w \in Workers :
        /\ pc[w] = "up_start"
        /\ tx[w].role = "doctor"
        /\ current_payment(db, tx[w].visit_id) # 0
        /\ Has(tx[w].req, "amount_paid")

\* C23 (as claimed): every committed payment row has one of the four statuses,
\* and it is the one the ordered rule gives for the row's own total_bill,
\* due_amount and amount_paid, whatever figures the handlers accepted.
C23_StoredStatusFollowsRule ==
    \A i \in 1..Len(db.payments) :
        LET row == db.payments[i]
        IN /\ row.status \in {"n/a", "pending", "partially paid", "paid"}
           /\ row.status = StatusRule(row.total_bill, row.due_amount, row.amount_paid)

\* C25 (as claimed): while no remedy is created, edited or deleted, the stock
\* of every remedy plus the quantities of it on committed line items stays
\* what it was, under any interleaving of create_visit and update_visit: no
\* step other than the commit of a remedy handler changes that sum.
C25_StockConserved ==
    [][(\A w \in Workers : ~(pc[w] \in {"cr_done", "ur_done", "dr_done"} /\ pc'[w] = "idle"))
       => \A r \in DOMAIN db.remedies :
             /\ r \in DOMAIN db'.remedies
             /\ db'.remedies[r].stock_quantity + Taken(db'.visit_medicines, r)
                   = db.remedies[r].stock_quantity + Taken(db.visit_medicines, r)]_vars

\* C26: an update_visit that does not answer 200 leaves the committed store as
\* it was, also when it fails after its first writes (old stock restored, old
\* line items deleted, new ones inserted): on insufficient stock for a new
\* line item, on a malformed item and on a store error.
C26_FailedUpdateVisitPersistsNothing ==
    [][\A w \in Workers :
          (/\ pc[w] \in {"uv_start", "uv_visit", "uv_patient", "uv_checked", "uv_done"}
           /\ pc'[w] = "idle"
           /\ resp'[w].code # 200)
          => db' = db]_vars

\* an update_visit has restored the old stock, deleted the old line items and
\* then met a new line item the restored stock does not cover
C26_Witness ==
    \E w \in Workers :
        /\ pc[w] = "uv_done"
        /\ tx[w].conn.outcome = "insufficient_stock"
        /\ Has(tx[w], "old_medicines")
        /\ tx[w].old_medicines # <<>>
        /\ tx[w].conn.db.remedies # db.remedies
        /\ tx[w].conn.db.visit_medicines # db.visit_medicines

\* C27: update_visit gives the visit's old quantities back before it tests the
\* new line items, so, store failures aside, an amendment whose items are well
\* formed with positive quantities (and whose patient age, if it has one, is a
\* number) succeeds whenever, for each remedy, what
\* the new items ask is at most the current stock plus what the visit held of
\* it; and one that submits the visit's line items again succeeds when no
\* stock is negative, even at stock 0, and leaves every stock as it was.
C27_RestoreBeforeCheck ==
    \A w \in Workers :
        (pc[w] = "uv_done" /\ tx[w].conn.fault = 0)
        => LET items == Get(tx[w].req, "medicines", <<>>)
               old   == old_medicines(db, tx[w].visit_id)
               well  == /\ \A i \in 1..Len(items) :
                              /\ Has(items[i], "remedy_id")
                              /\ Get(items[i], "quantity", 1) > 0
                        /\ Get(tx[w].req, "patient_age", "0") \in DOMAIN Decimal \cup {""}
               same  == /\ Len(items) = Len(old)
                        /\ \A i \in 1..Len(old) :
                              /\ Get(items[i], "remedy_id", 0) = old[i].remedy_id
                              /\ Get(items[i], "quantity", 1) = old[i].quantity
               covered == \A r \in DOMAIN db.remedies :
                              Requested(items, r)
                                  <= db.remedies[r].stock_quantity + Taken(old, r)
           IN /\ (well /\ covered) => tx[w].conn.outcome = "ok"
              /\ (well /\ same /\ \A r \in DOMAIN db.remedies :
                                      db.remedies[r].stock_quantity >= 0)
                 => /\ tx[w].conn.outcome = "ok"
                    /\ tx[w].conn.db.remedies = db.remedies

\* the visit holds all 4 units of remedy 2, whose stock is 0, and the same
\* line item is submitted again
C27_Witness ==
    \E w \in Workers :
        /\ pc[w] = "uv_done"
        /\ tx[w].conn.fault = 0
        /\ Get(tx[w].req, "medicines", <<>>) = <<Item(2, 4)>>
        /\ db.remedies[2].stock_quantity = 0
        /\ Taken(old_medicines(db, tx[w].visit_id), 2) = 4
        /\ tx[w].conn.outcome = "ok"
        /\ tx[w].conn.db.remedies[2].stock_quantity = 0

\* C28: a successful update_payment leaves in the visit's payment row the
\* stored consultation_fee, medicine_bill and amount_paid for each of them the
\* payload omits and the payload's value for each it supplies, with total_bill
\* their first two summed, due_amount the total less the amount paid and a
\* status that is one of the four and, for figures that are not negative, the
\* ordered rule's; it changes nothing else.  For a visit with no payment row,
\* in a store that has its payments table, it answers 404 "Visit payment not
\* found" and changes nothing.
C28_UpdatePaymentFrame ==
    [][\A w \in Workers :
          /\ (/\ pc[w] = "up_start"
              /\ tx[w].role = "admin"
              /\ has_table(db, "payments")
              /\ current_payment(db, tx[w].visit_id) = 0
              /\ pc'[w] # pc[w])
             => /\ pc'[w] = "idle"
                /\ resp'[w] = Response("update_payment", 404, "Visit payment not found", 0)
                /\ db' = db
          /\ (pc[w] = "up_done" /\ pc'[w] = "idle" /\ resp'[w].code = 200)
             => LET i      == current_payment(db, tx[w].visit_id)
                    stored == db.payments[i]
                    row    == db'.payments[i]
                    given  == tx[w].req
                    fee    == IF Has(given, "consultation_fee")
                              THEN given.consultation_fee ELSE stored.consultation_fee
                    med    == IF Has(given, "medicine_bill")
                              THEN given.medicine_bill ELSE stored.medicine_bill
                    paid   == IF Has(given, "amount_paid")
                              THEN given.amount_paid ELSE stored.amount_paid
                IN /\ i # 0
                   /\ row.consultation_fee = fee
                   /\ row.medicine_bill = med
                   /\ row.amount_paid = paid
                   /\ row.total_bill = fee + med
                   /\ row.due_amount = fee + med - paid
                   /\ row.status \in {"n/a", "pending", "partially paid", "paid"}
                   /\ NonNegative(row)
                         => row.status = StatusRule(fee + med, fee + med - paid, paid)
                   /\ row.visit_id = stored.visit_id
                   /\ row.patient_id = stored.patient_id
                   /\ Len(db'.payments) = Len(db.payments)
                   /\ \A j \in 1..Len(db.payments) :
                         j # i => db'.payments[j] = db.payments[j]
                   /\ db'.visits = db.visits
                   /\ db'.visit_medicines = db.visit_medicines
                   /\ db'.remedies = db.remedies
                   /\ db'.patients = db.patients]_vars

\* update_payment has been given only an amount paid, for a visit whose row
\* holds a fee of 5 and a medicine bill of 15, and keeps both
C28_Witness ==
    \E w \in Workers :
        /\ pc[w] = "up_done"
        /\ DOMAIN tx[w].req = {"amount_paid"}
        /\ tx[w].req.amount_paid = 7
        /\ tx[w].conn.outcome = "ok"
        /\ LET row == tx[w].conn.db.payments[current_payment(db, tx[w].visit_id)]
           IN /\ row.consultation_fee = 5
              /\ row.medicine_bill = 15
              /\ row.total_bill = 20
              /\ row.due_amount = 13
              /\ row.status = "partially paid"

\* C29: in the store a successful update_visit commits, the visit's payment
\* row holds the payload's consultation_fee and amount_paid, each 0 when the
\* payload omits it, and a medicine_bill equal to the sum of the visit's new
\* line totals, with total and due derived from them; the fee and the amount
\* paid stored before the call are not carried over.
C29_PaymentFromPayloadAlone ==
    \A w \in Workers :
        (pc[w] = "uv_done" /\ tx[w].conn.outcome = "ok")
        => LET after == commit(tx[w].conn, db)
               rows  == {i \in 1..Len(after.payments) :
                            after.payments[i].visit_id = tx[w].visit_id}
               fee   == IF Has(tx[w].req, "consultation_fee")
                        THEN tx[w].req.consultation_fee ELSE 0
               paid  == IF Has(tx[w].req, "amount_paid") THEN tx[w].req.amount_paid ELSE 0
               med   == Billed(after.visit_medicines, tx[w].visit_id)
           IN /\ rows # {}
              /\ \A i \in rows :
                    /\ after.payments[i].consultation_fee = fee
                    /\ after.payments[i].amount_paid = paid
                    /\ after.payments[i].medicine_bill = med
                    /\ after.payments[i].total_bill = fee + med
                    /\ after.payments[i].due_amount = fee + med - paid

\* an update_visit whose payload names neither a fee nor an amount paid, for a
\* visit billed a fee of 5 of which 2 were paid: both become 0
C29_Witness ==
    \E w \in Workers :
        /\ pc[w] = "uv_done"
        /\ tx[w].conn.outcome = "ok"
        /\ ~Has(tx[w].req, "consultation_fee")
        /\ ~Has(tx[w].req, "amount_paid")
        /\ LET i == current_payment(db, tx[w].visit_id)
           IN /\ i # 0
              /\ db.payments[i].consultation_fee = 5
              /\ db.payments[i].amount_paid = 2
              /\ tx[w].conn.db.payments[i].consultation_fee = 0
              /\ tx[w].conn.db.payments[i].amount_paid = 0

\* C24 (as claimed): for prices and amounts of two decimals, the line totals,
\* the medicine bill, the total bill and the due amount the handlers compute
\* are the exact decimal results: each is the float of the decimal number that
\* exact arithmetic on the hundredths gives, with no rounding drift.
C24_ExactDecimalBilling ==
    LET med   == ExactMedicineBill(bill.items)
        total == bill.fee + med
    IN /\ bill.pc = "created"
          => /\ \A i \in 1..Len(bill.items) :
                   bill.stored.line_totals[i]
                       = float_of_decimal(bill.items[i].price * bill.items[i].qty)
             /\ bill.stored.medicine_bill = float_of_decimal(med)
             /\ bill.stored.total_bill = float_of_decimal(total)
             /\ bill.stored.due_amount = float_of_decimal(total - bill.paid)
       /\ bill.pc = "updated"
          => /\ bill.stored.total_bill = float_of_decimal(total)
             /\ bill.stored.due_amount = float_of_decimal(total - bill.paid)

\* the place of an attempt in the order of ChatService.load_model: model by
\* model in the order of MODELS, and for one model the GPU before the CPU
Place(attempt) ==
    2 * (CHOOSE i \in 1..Len(MODELS) : MODELS[i] = attempt.model)
        + (IF attempt.device = "gpu" THEN 0 ELSE 1)

\* every attempt load_model makes when none succeeds: GPU then CPU for the
\* first model and for each later model whose file is present
RECURSIVE AllAttemptsFailed(_, _)
AllAttemptsFailed(i, files) ==
    IF i > Len(MODELS) THEN <<>>
    ELSE (IF i # 1 /\ MODELS[i] \notin files THEN <<>>
          ELSE <<[model |-> MODELS[i], device |-> "gpu", loaded |-> FALSE],
                 [model |-> MODELS[i], device |-> "cpu", loaded |-> FALSE]>>)
             \o AllAttemptsFailed(i + 1, files)

\* the message is answered by one of the three queries of get_response's fast
\* path, with no use of the model
OnFastPath(user_message) ==
    \/ stock_match(msg_lower(user_message))
    \/ asks_revenue(msg_lower(user_message))
    \/ asks_patient_count(msg_lower(user_message))

\* what holds of the attempts of the latest call of load_model, and of the
\* outcome of the latest call of get_response, in every state
C30_Attempts ==
    LET log == chat.attempts
    IN /\ \A k \in 1..Len(log) :
             /\ k > 1 => Place(log[k - 1]) < Place(log[k])
             /\ log[k].device = "cpu"
                   => k > 1 /\ log[k - 1] = [model |-> log[k].model, device |-> "gpu",
                                             loaded |-> FALSE]
             /\ log[k].device = "gpu" /\ k > 1 => log[k - 1].device = "cpu"
             /\ k < Len(log) => ~log[k].loaded
             /\ log[k].model # MODELS[1] => log[k].model \in chat.files
       /\ chat.model # NoModel
             => /\ log # <<>>
                /\ log[Len(log)] = [model |-> chat.model.name, device |-> chat.model.device,
                                    loaded |-> TRUE]
                /\ chat.pc = "idle"
       /\ (log # <<>> /\ log[Len(log)].loaded) => chat.model # NoModel
       /\ (chat.pc = "idle" /\ chat.loads > 0 /\ chat.model = NoModel)
             => log = AllAttemptsFailed(1, chat.files)
       /\ chat.reply.called_model => chat.model # NoModel
       /\ (chat.model = NoModel /\ chat.reply.message # "" /\ ~OnFastPath(chat.reply.message))
             => /\ chat.reply.raised = ""
                /\ chat.reply.text = "The AI model is unavailable. I can only answer questions about Inventory, Revenue, and Patient Counts."
       /\ chat.reply.raised # ""
             => /\ OnFastPath(chat.reply.message)
                /\ chat.reply.raised \in {"sqlite3.OperationalError", "sqlite3.DatabaseError"}

\* C30: load_model tries the models in the order of MODELS and, for each, the
\* GPU before the CPU; it stops at the first load that succeeds; it skips a
\* model other than the first whose file is not present; called when a model
\* is loaded it changes nothing; a call that has begun ends; and it ends with
\* no model only when every attempt it could make has failed.  While no model
\* is loaded get_response never calls one and answers a message off its fast
\* path with the "model is unavailable" text; whether a model is loaded or
\* not, the only exceptions that leave get_response are those of sqlite3 on
\* the three queries of the fast path.
C30_LoadModel ==
    /\ []C30_Attempts
    /\ [][(chat.model # NoModel /\ chat'.loads # chat.loads)
             => chat' = [chat EXCEPT !.loads = @ + 1]]_vars
    /\ (chat.pc # "idle") ~> (chat.pc = "idle")

\* with both files present, three loads have failed and the second model has
\* loaded on the CPU; get_response has since put "hello" to it
C30_Witness ==
    /\ chat.pc = "idle"
    /\ chat.files = {MODELS[1], MODELS[2]}
    /\ Len(chat.attempts) = 4
    /\ chat.model = [name |-> MODELS[2], device |-> "cpu"]
    /\ chat.model_name = MODELS[2]
    /\ chat.reply.message = "hello"
    /\ chat.reply.called_model

====
